---- MODULE Spec2Model ----
(***************************************************************************)
(* Spartan Schema: the compiled-graph engine (src/src/schema.ts:           *)
(* compileSchema and the Schema node classes) and the let/ref engine       *)
(* (src/unnamed/part_002: isSchema, matchesSchema, zeroValue).             *)
(*                                                                         *)
(* JavaScript values are tagged records.  A number is kept as twice its    *)
(* value (field h), so that 1.5 is h = 3 and "is an integer" is "h is      *)
(* even"; NaN is a number with nan = TRUE.  A Uint8Array is kept as its    *)
(* canonical base64 text, a Date as its time value.  An object is a        *)
(* function from its own keys to values; Object.entries walks the keys in  *)
(* the order of KeyOrder.                                                  *)
(***************************************************************************)
EXTENDS Integers, Sequences, FiniteSets, TLC

VARIABLES
  impl,      \* which engine the run drives: "compiled" or "letref"
  source,    \* the schema source document handed to the engine
  value,     \* the value handed to validate / restrict / the matcher
  compiled,  \* what compileSchema returned (or threw), "none" before the call
  call,      \* the last operation called and its options
  result     \* the outcome of the last operation

vars == <<impl, source, value, compiled, call, result>>

-----------------------------------------------------------------------------
(* Bounds of the model *)

MaxNumH == 3       \* input numbers are 0, 0.5, ..., MaxNumH / 2 (and NaN)
MaxArrayLen == 1   \* input arrays have at most this many elements
MaxPathLen == 2    \* paths handed to atPath have at most this many steps

-----------------------------------------------------------------------------
(* JavaScript values *)

Undefined == [t |-> "undefined"]
Null == [t |-> "null"]
Bool(b) == [t |-> "boolean", b |-> b]
Num(h) == [t |-> "number", nan |-> FALSE, h |-> h]
NaN == [t |-> "number", nan |-> TRUE, h |-> 0]
Whole(n) == Num(2 * n)
Str(s) == [t |-> "string", s |-> s]
Bin(b64) == [t |-> "binary", b64 |-> b64]
DateMs(ms) == [t |-> "date", c |-> "ms", ms |-> ms]
InvalidDate == [t |-> "date", c |-> "invalid"]
EngineDate(text) == [t |-> "date", c |-> "engine", text |-> text]
Arr(e) == [t |-> "array", e |-> e]
Obj(m) == [t |-> "object", m |-> m]

IsInteger(v) == v.t = "number" /\ ~v.nan /\ v.h % 2 = 0

\* Object.entries order: the keys of an object in their order in KeyOrder.
KeyOrder ==
  <<"$schema", "$A", "$B", "$$a", "a", "b", "$a", "loop",
    "spartan", "let", "schema", "A", "B">>

RECURSIVE KeysFrom(_, _)
KeysFrom(m, i) ==
  IF i > Len(KeyOrder) THEN <<>>
  ELSE (IF KeyOrder[i] \in DOMAIN m THEN <<KeyOrder[i]>> ELSE <<>>)
       \o KeysFrom(m, i + 1)

ObjectKeys(m) == KeysFrom(m, 1)

\* lodash fromPairs on a list of <<key, value>> pairs (keys are distinct here)
FromPairs(ps) ==
  [k \in {ps[i][1] : i \in DOMAIN ps} |->
     (CHOOSE p \in {ps[i] : i \in DOMAIN ps} : p[1] = k)[2]]

RECURSIVE Flatten(_)
Flatten(ss) == IF ss = <<>> THEN <<>> ELSE Head(ss) \o Flatten(Tail(ss))

StartsWith(s, p) == Len(s) >= Len(p) /\ SubSeq(s, 1, Len(p)) = p

\* !!value
Truthy(v) ==
  CASE v.t = "undefined" -> FALSE
    [] v.t = "null" -> FALSE
    [] v.t = "boolean" -> v.b
    [] v.t = "number" -> ~v.nan /\ v.h # 0
    [] v.t = "string" -> v.s # ""
    [] OTHER -> TRUE

\* Number.prototype.toString for the numbers of the model
NumberToString(v) ==
  IF v.nan THEN "NaN"
  ELSE LET a == IF v.h < 0 THEN -v.h ELSE v.h
           digits == ToString(a \div 2) \o (IF a % 2 = 1 THEN ".5" ELSE "")
       IN  IF v.h < 0 THEN "-" \o digits ELSE digits

\* `${value}` for a number, a boolean or null
TemplateString(v) ==
  CASE v.t = "number" -> NumberToString(v)
    [] v.t = "boolean" -> (IF v.b THEN "true" ELSE "false")
    [] v.t = "null" -> "null"

IsDigit(c) == c \in {"0", "1", "2", "3", "4", "5", "6", "7", "8", "9"}
DigitVal(c) ==
  CASE c = "0" -> 0 [] c = "1" -> 1 [] c = "2" -> 2 [] c = "3" -> 3
    [] c = "4" -> 4 [] c = "5" -> 5 [] c = "6" -> 6 [] c = "7" -> 7
    [] c = "8" -> 8 [] c = "9" -> 9

RECURSIVE DigitPrefixLen(_, _)
DigitPrefixLen(s, i) ==
  IF i <= Len(s) /\ IsDigit(SubSeq(s, i, i))
  THEN 1 + DigitPrefixLen(s, i + 1) ELSE 0

RECURSIVE DigitsValue(_, _, _)
DigitsValue(s, i, acc) ==
  IF i > Len(s) THEN acc
  ELSE DigitsValue(s, i + 1, 10 * acc + DigitVal(SubSeq(s, i, i)))

\* parseInt(s): the longest run of leading digits, NaN when there is none
ParseInt(s) ==
  LET n == DigitPrefixLen(s, 1)
  IN  IF n = 0 THEN NaN ELSE Whole(DigitsValue(SubSeq(s, 1, n), 1, 0))

\* +s: "" is 0, a decimal literal is its value, anything else NaN
\* (fractions other than .0 and .5 are outside the numbers of the model)
UnaryPlus(s) ==
  LET n == DigitPrefixLen(s, 1)
      whole == DigitsValue(SubSeq(s, 1, n), 1, 0)
      rest == SubSeq(s, n + 1, Len(s))
  IN  IF s = "" THEN Whole(0)
      ELSE IF n = 0 THEN NaN
      ELSE IF rest = "" \/ rest = "." \/ rest = ".0" THEN Whole(whole)
      ELSE IF rest = ".5" THEN Num(2 * whole + 1)
      ELSE NaN

\* Math.floor and Math.round on a number kept as twice its value
MathFloor(v) == IF v.nan THEN NaN ELSE Num(2 * (v.h \div 2))
MathRound(v) == IF v.nan THEN NaN ELSE Num(2 * ((v.h + 1) \div 2))

\* Buffer.from(s, 'base64'): never throws; 4 characters give 3 bytes, fewer
\* than 2 characters give none (strings of the model have length < 2 or = 4)
BufferFromBase64(s) == IF Len(s) < 4 THEN Bin("") ELSE Bin(SubSeq(s, 1, 4))

\* Buffer.from(bytes).toString('base64')
BufferToBase64(v) == v.b64

\* new Date(x) for a number or a string.  A number is truncated to whole
\* milliseconds; a string of the model is no ISO 8601 text, so it is an
\* invalid date unless the engine's fallback parser reads its digits.
NewDate(v) ==
  IF v.t = "number"
  THEN (IF v.nan THEN InvalidDate
        ELSE DateMs(IF v.h >= 0 THEN v.h \div 2 ELSE -((-v.h) \div 2)))
  ELSE (IF DigitPrefixLen(v.s, 1) > 0 THEN EngineDate(v.s) ELSE InvalidDate)

\* Date.prototype.getTime
GetTime(v) == IF v.c = "ms" THEN Whole(v.ms) ELSE NaN

\* Date.prototype.toISOString for a time within the first second of 1970;
\* it throws RangeError on an invalid date
ToISOString(v) ==
  LET ms == ToString(v.ms)
      pad == IF Len(ms) = 1 THEN "00" ELSE IF Len(ms) = 2 THEN "0" ELSE ""
  IN  "1970-01-01T00:00:00." \o pad \o ms \o "Z"

-----------------------------------------------------------------------------
(* Thrown errors.  An operation's outcome is a value, Undefined or a throw. *)

SchemaCompileError(msg, path) ==
  [t |-> "throw", error |-> "SchemaCompileError", msg |-> msg, path |-> path]
RecursionError(label) ==
  [t |-> "throw", error |-> "RecursionError", label |-> label]
AmbiguousPathError(path) ==
  [t |-> "throw", error |-> "AmbiguousPathError", path |-> path]
RangeError(msg) == [t |-> "throw", error |-> "RangeError", msg |-> msg]
\* what a recursion that re-enters the call it is evaluating ends in
StackOverflow == RangeError("Maximum call stack size exceeded")
\* an Error that is none of the engine's own classes

IsThrow(r) == r.t = "throw"

\* the first throw of a list of outcomes taken in evaluation order
RECURSIVE FirstThrow(_)
FirstThrow(rs) ==
  IF rs = <<>> THEN Undefined
  ELSE IF IsThrow(Head(rs)) THEN Head(rs) ELSE FirstThrow(Tail(rs))

AnyThrow(rs) == \E i \in DOMAIN rs : IsThrow(rs[i])

SeqRange(s) == {s[i] : i \in DOMAIN s}

-----------------------------------------------------------------------------
(* The compiled graph: nodes of src/src/schema.ts.  A FixpointType is named *)
(* by its label and the path of the object that binds it; its mutable       *)
(* `schema` field lives in the heap, a function from fixpoints to nodes.     *)

ScalarKinds ==
  {"string", "float", "integer", "binary", "date", "boolean", "null"}

ScalarNode(kind) == [k |-> kind]
AnyNode == [k |-> "any"]
EnumNode(members) == [k |-> "enum", members |-> members]
OneOfNode(subtypes) == [k |-> "oneof", subtypes |-> subtypes]
ArrayNode(elementType) == [k |-> "array", elementType |-> elementType]
DictionaryNode(valueType) == [k |-> "dictionary", valueType |-> valueType]
ObjectNode(entries) == [k |-> "object", entries |-> entries]
FixpointNode(label, at) == [k |-> "fixpoint", label |-> label, at |-> at]

Compiled(node, heap) == [t |-> "schema", node |-> node, heap |-> heap]

\* the union of the heaps of a list of compile results
MergeHeaps(rs) ==
  LET ids == UNION {DOMAIN rs[i].heap : i \in DOMAIN rs}
  IN  [id \in ids |->
         rs[CHOOSE i \in DOMAIN rs : id \in DOMAIN rs[i].heap].heap[id]]

IsBindingKey(k) == StartsWith(k, "$") /\ ~StartsWith(k, "$$")
IsEntryKey(k) == ~IsBindingKey(k)

\* LookupLabel with a label out of scope compiled as the type any
LookupLabelOrAny(scope, label, path) ==
  IF label \in DOMAIN scope THEN Compiled(scope[label], <<>>)
  ELSE Compiled(AnyNode, <<>>)

\* a label string: the schema the scope holds for it, an error if none
LookupLabel(scope, label, path) ==
  IF label \in DOMAIN scope THEN Compiled(scope[label], <<>>)
  ELSE SchemaCompileError("label not in scope", path)

RECURSIVE CompileSchema(_, _, _)
CompileSchema(src, path, scope) ==
  IF src.t = "object" THEN
    LET keys == ObjectKeys(src.m)
        bindings == SelectSeq(keys, IsBindingKey)
        entries == SelectSeq(keys, IsEntryKey)
        labels == SeqRange(bindings)
        scopeWithFixpoints ==
          [l \in DOMAIN scope \cup labels |->
             IF l \in labels THEN FixpointNode(l, path) ELSE scope[l]]
        compiledBindings ==
          [i \in DOMAIN bindings |->
             CompileSchema(src.m[bindings[i]], path \o <<Str(bindings[i])>>,
                           scopeWithFixpoints)]
        IndexOf(l) == CHOOSE i \in DOMAIN bindings : bindings[i] = l
        scope2 ==
          [l \in DOMAIN scope \cup labels |->
             IF l \in labels THEN compiledBindings[IndexOf(l)].node
             ELSE scope[l]]
        compiledEntries ==
          [i \in DOMAIN entries |->
             CompileSchema(src.m[entries[i]], path \o <<Str(entries[i])>>,
                           scope2)]
        EntryName(k) == IF StartsWith(k, "$$") THEN SubSeq(k, 2, Len(k)) ELSE k
        fixHeap ==
          [id \in {FixpointNode(l, path) : l \in labels} |->
             compiledBindings[IndexOf(id.label)].node]
    IN  IF bindings # <<>> /\ "$schema" \in DOMAIN src.m
           /\ src.m["$schema"].t = "string"
           /\ StartsWith(src.m["$schema"].s, "http")
        THEN SchemaCompileError("this is a JSON Schema", path)
        ELSE IF AnyThrow(compiledBindings) THEN FirstThrow(compiledBindings)
        ELSE IF AnyThrow(compiledEntries) THEN FirstThrow(compiledEntries)
        ELSE Compiled(
               ObjectNode(FromPairs(
                 [i \in DOMAIN entries |->
                    <<EntryName(entries[i]), compiledEntries[i].node>>])),
               MergeHeaps(compiledBindings \o compiledEntries
                          \o <<Compiled(Null, fixHeap)>>))
  ELSE IF src.t = "array" /\ Len(src.e) = 1 THEN
    LET r == CompileSchema(src.e[1], path \o <<Whole(0)>>, scope)
    IN  IF IsThrow(r) THEN r ELSE Compiled(ArrayNode(r.node), r.heap)
  ELSE IF src.t = "array" /\ Len(src.e) > 1 THEN
    CASE src.e[1] = Str("oneof") ->
           LET rs == [i \in 1..(Len(src.e) - 1) |->
                        CompileSchema(src.e[i + 1], path \o <<Whole(i)>>, scope)]
           IN  IF AnyThrow(rs) THEN FirstThrow(rs)
               ELSE Compiled(OneOfNode([i \in DOMAIN rs |-> rs[i].node]),
                             MergeHeaps(rs))
      [] src.e[1] = Str("enum") ->
           LET members == Tail(src.e)
               bad == {i \in DOMAIN members :
                         members[i].t \notin
                           {"string", "number", "boolean", "null"}}
           IN  IF bad # {}
               THEN SchemaCompileError(
                      "enum entries must be scalar values",
                      path \o <<Whole(CHOOSE i \in bad : \A j \in bad : i <= j)>>)
               ELSE Compiled(EnumNode(members), <<>>)
      [] src.e[1] = Str("dictionary") ->
           IF Len(src.e) # 2
           THEN SchemaCompileError("dictionary must be a 2-element array", path)
           ELSE LET r == CompileSchema(src.e[2], path \o <<Whole(1)>>, scope)
                IN  IF IsThrow(r) THEN r
                    ELSE Compiled(DictionaryNode(r.node), r.heap)
      [] OTHER -> SchemaCompileError("not a Spartan Schema type tag", path)
  ELSE IF src.t = "string" /\ src.s \in ScalarKinds THEN
    Compiled(ScalarNode(src.s), <<>>)
  ELSE IF src = Str("any") THEN Compiled(AnyNode, <<>>)
  ELSE IF src.t = "string" THEN
    IF IsBindingKey(src.s) THEN LookupLabel(scope, src.s, path)
    ELSE SchemaCompileError("not a Spartan Schema type", path)
  ELSE IF src.t = "null" THEN Compiled(ScalarNode("null"), <<>>)
  ELSE SchemaCompileError("unexpected JSON value", path)

-----------------------------------------------------------------------------
(* Operations of the node classes.  h is the heap of the graph, n a node.  *)
(* `active` is the set of fixpoints entered since the walk last moved to a   *)
(* child of the value (or, for the walks that take no value, since the      *)
(* start): a call that re-enters one of them is the call it is already      *)
(* evaluating, and recurses until the stack overflows.                      *)

Mismatch(type, v, path) ==
  [t |-> "mismatch", type |-> type, value |-> v, path |-> path]
Mismatches(list) == [t |-> "mismatches", list |-> list]

NoOptions == [fillEmpty |-> FALSE, fillZero |-> FALSE, coerce |-> FALSE]
CoerceOnly == [fillEmpty |-> FALSE, fillZero |-> FALSE, coerce |-> TRUE]

\* a === b for two values one of which is a scalar
StrictEquals(a, b) ==
  /\ a.t = b.t
  /\ a.t \in {"undefined", "null", "boolean", "number", "string"}
  /\ (a.t = "number" => ~a.nan /\ ~b.nan)
  /\ a = b

\* SameValueZero, the comparison of Array.prototype.includes
SameValueZero(a, b) ==
  /\ a.t = b.t
  /\ a.t \in {"undefined", "null", "boolean", "number", "string"}
  /\ a = b

\* flatMap of validate over children: the first throw, or all mismatches
FlatMapValidate(rs) ==
  IF AnyThrow(rs) THEN FirstThrow(rs)
  ELSE Mismatches(Flatten([i \in DOMAIN rs |-> rs[i].list]))

\* subtypes.some(s => !s.validate(...).length), evaluated left to right
RECURSIVE SomeValid(_)
SomeValid(rs) ==
  IF rs = <<>> THEN Bool(FALSE)
  ELSE IF IsThrow(Head(rs)) THEN Head(rs)
  ELSE IF Head(rs).list = <<>> THEN Bool(TRUE)
  ELSE SomeValid(Tail(rs))

\* the test of ObjectType.validate that turns a key outside the entries into
\* a mismatch; the mutant below makes that test on request only
ExtraFieldsFailOnRequest(allowExtraFields, v, entries) ==
  allowExtraFields /\ ~(DOMAIN v.m \subseteq DOMAIN entries)

ExtraFieldsFail(allowExtraFields, v, entries) ==
  ~allowExtraFields /\ ~(DOMAIN v.m \subseteq DOMAIN entries)

RECURSIVE Validate(_, _, _, _, _, _)
Validate(h, n, v, path, allowExtraFields, active) ==
  LET fail == Mismatches(<<Mismatch(n, v, path)>>)
      pass == Mismatches(<<>>)
  IN
  CASE n.k = "string" -> IF v.t = "string" THEN pass ELSE fail
    [] n.k = "float" -> IF v.t = "number" THEN pass ELSE fail
    [] n.k = "integer" ->
         IF v.t = "number" /\ StrictEquals(v, MathFloor(v)) THEN pass ELSE fail
    [] n.k = "binary" -> IF v.t = "binary" THEN pass ELSE fail
    [] n.k = "date" -> IF v.t = "date" THEN pass ELSE fail
    [] n.k = "boolean" -> IF v.t = "boolean" THEN pass ELSE fail
    [] n.k = "null" -> IF v.t = "null" THEN pass ELSE fail
    [] n.k = "oneof" ->
         LET some == SomeValid(
               [i \in DOMAIN n.subtypes |->
                  Validate(h, n.subtypes[i], v, path, allowExtraFields, active)])
         IN  IF IsThrow(some) THEN some ELSE IF some.b THEN pass ELSE fail
    [] n.k = "enum" ->
         IF \E i \in DOMAIN n.members : StrictEquals(n.members[i], v)
         THEN pass ELSE fail
    [] n.k = "array" ->
         IF v.t # "array" THEN fail
         ELSE FlatMapValidate(
                [i \in DOMAIN v.e |->
                   Validate(h, n.elementType, v.e[i], path \o <<Whole(i - 1)>>,
                            allowExtraFields, {})])
    [] n.k = "dictionary" ->
         IF v.t # "object" THEN fail
         ELSE LET ks == ObjectKeys(v.m)
              IN  FlatMapValidate(
                    [i \in DOMAIN ks |->
                       Validate(h, n.valueType, v.m[ks[i]],
                                path \o <<Str(ks[i])>>, allowExtraFields, {})])
    [] n.k = "object" ->
         IF v.t # "object" THEN fail
         ELSE LET ks == ObjectKeys(n.entries)
                  failures == FlatMapValidate(
                    [i \in DOMAIN ks |->
                       IF ks[i] \in DOMAIN v.m
                       THEN Validate(h, n.entries[ks[i]], v.m[ks[i]],
                                     path \o <<Str(ks[i])>>, allowExtraFields, {})
                       ELSE pass])
              IN  IF IsThrow(failures) THEN failures
                  ELSE IF ExtraFieldsFail(allowExtraFields, v, n.entries)
                  THEN Mismatches(failures.list \o fail.list)
                  ELSE failures
    [] n.k = "any" -> pass
    [] n.k = "fixpoint" ->
         IF n \in active THEN StackOverflow
         ELSE Validate(h, h[n], v, path, allowExtraFields, active \cup {n})

RECURSIVE ZeroValue(_, _)
ZeroValue(h, n) ==
  CASE n.k = "string" -> Str("")
    [] n.k = "float" -> Whole(0)
    [] n.k = "integer" -> Whole(0)
    [] n.k = "binary" -> Bin("")
    [] n.k = "date" -> DateMs(0)
    [] n.k = "boolean" -> Bool(FALSE)
    [] n.k = "null" -> Null
    [] n.k = "oneof" -> ZeroValue(h, n.subtypes[1])
    [] n.k = "enum" -> n.members[1]
    [] n.k = "array" -> Arr(<<>>)
    [] n.k = "dictionary" -> Obj(<<>>)
    [] n.k = "object" ->
         LET ks == ObjectKeys(n.entries)
             zs == [i \in DOMAIN ks |-> ZeroValue(h, n.entries[ks[i]])]
         IN  IF AnyThrow(zs) THEN FirstThrow(zs)
             ELSE Obj([k \in DOMAIN n.entries |-> ZeroValue(h, n.entries[k])])
    [] n.k = "any" -> Null
    [] n.k = "fixpoint" -> RecursionError(n.label)

\* IsScalar with ArrayType answering true as well
IsScalarAlsoArrays(h, n) == n.k \in ScalarKinds \cup {"enum", "array"}

IsScalar(h, n) == n.k \in ScalarKinds \cup {"enum"}

RECURSIVE IsArray(_, _, _)
IsArray(h, n, active) ==
  CASE n.k = "array" -> Bool(TRUE)
    [] n.k = "fixpoint" ->
         IF n \in active THEN StackOverflow
         ELSE IsArray(h, h[n], active \cup {n})
    [] OTHER -> Bool(FALSE)

RECURSIVE IsObject(_, _, _)
IsObject(h, n, active) ==
  CASE n.k \in {"object", "dictionary"} -> Bool(TRUE)
    [] n.k = "fixpoint" ->
         IF n \in active THEN StackOverflow
         ELSE IsObject(h, h[n], active \cup {n})
    [] OTHER -> Bool(FALSE)

RECURSIVE IsRecursive(_, _)
IsRecursive(h, n) ==
  CASE n.k = "oneof" ->
         \E i \in DOMAIN n.subtypes : IsRecursive(h, n.subtypes[i])
    [] n.k = "array" -> IsRecursive(h, n.elementType)
    [] n.k = "dictionary" -> IsRecursive(h, n.valueType)
    [] n.k = "object" ->
         \E k \in DOMAIN n.entries : IsRecursive(h, n.entries[k])
    [] n.k = "fixpoint" -> TRUE
    [] OTHER -> FALSE

\* xs.every(...) over outcomes taken left to right: the first FALSE or throw
RECURSIVE EveryTrue(_)
EveryTrue(rs) ==
  IF rs = <<>> THEN Bool(TRUE)
  ELSE IF IsThrow(Head(rs)) THEN Head(rs)
  ELSE IF ~Head(rs).b THEN Bool(FALSE)
  ELSE EveryTrue(Tail(rs))

RECURSIVE HasFixedShape(_, _, _)
HasFixedShape(h, n, active) ==
  CASE n.k = "oneof" ->
         EveryTrue([i \in DOMAIN n.subtypes |->
                      IF ~IsScalar(h, n.subtypes[i]) THEN Bool(FALSE)
                      ELSE HasFixedShape(h, n.subtypes[i], active)])
    [] n.k = "array" -> HasFixedShape(h, n.elementType, active)
    [] n.k = "dictionary" -> HasFixedShape(h, n.valueType, active)
    [] n.k = "object" ->
         LET ks == ObjectKeys(n.entries)
         IN  EveryTrue([i \in DOMAIN ks |->
                          HasFixedShape(h, n.entries[ks[i]], active)])
    [] n.k = "any" -> Bool(FALSE)
    [] n.k = "fixpoint" ->
         IF n \in active THEN StackOverflow
         ELSE HasFixedShape(h, h[n], active \cup {n})
    [] OTHER -> Bool(TRUE)

\* child(path): the schema one step below, Undefined where there is none
RECURSIVE Child(_, _, _, _)
Child(h, n, path, active) ==
  CASE n.k = "oneof" ->
         LET fixed == HasFixedShape(h, n, {})
         IN  IF IsThrow(fixed) THEN fixed
             ELSE IF fixed.b THEN Undefined
             ELSE AmbiguousPathError(<<path>>)
    [] n.k = "array" ->
         IF path.t = "number" THEN Compiled(n.elementType, h) ELSE Undefined
    [] n.k = "dictionary" ->
         IF path.t = "string" THEN Compiled(n.valueType, h) ELSE Undefined
    [] n.k = "object" ->
         IF path.t = "string" /\ path.s \in DOMAIN n.entries
         THEN Compiled(n.entries[path.s], h) ELSE Undefined
    [] n.k = "any" -> AmbiguousPathError(<<path>>)
    [] n.k = "fixpoint" ->
         IF n \in active THEN StackOverflow
         ELSE Child(h, h[n], path, active \cup {n})
    [] OTHER -> Undefined

\* toSource(): the JSON source of a node.  A fixpoint whose schema is set
\* answers with the source of that schema, its label otherwise.
RECURSIVE ToSource(_, _, _)
ToSource(h, n, active) ==
  CASE n.k = "null" -> Null
    [] n.k \in ScalarKinds \ {"null"} -> Str(n.k)
    [] n.k = "any" -> Str("any")
    [] n.k = "enum" -> Arr(<<Str("enum")>> \o n.members)
    [] n.k = "oneof" ->
         LET rs == [i \in DOMAIN n.subtypes |->
                      ToSource(h, n.subtypes[i], active)]
         IN  IF AnyThrow(rs) THEN FirstThrow(rs)
             ELSE Arr(<<Str("oneof")>> \o rs)
    [] n.k = "array" ->
         LET r == ToSource(h, n.elementType, active)
         IN  IF IsThrow(r) THEN r ELSE Arr(<<r>>)
    [] n.k = "dictionary" ->
         LET r == ToSource(h, n.valueType, active)
         IN  IF IsThrow(r) THEN r ELSE Arr(<<Str("dictionary"), r>>)
    [] n.k = "object" ->
         LET ks == ObjectKeys(n.entries)
             rs == [i \in DOMAIN ks |-> ToSource(h, n.entries[ks[i]], active)]
         IN  IF AnyThrow(rs) THEN FirstThrow(rs)
             ELSE Obj(FromPairs([i \in DOMAIN ks |-> <<ks[i], rs[i]>>]))
    [] n.k = "fixpoint" ->
         IF n \notin DOMAIN h THEN Str(n.label)
         ELSE IF n \in active THEN StackOverflow
         ELSE ToSource(h, h[n], active \cup {n})

\* the catch block of atPath: an AmbiguousPathError of a child call is thrown
\* again with the path walked so far, the failing step included; the mutant
\* below lets the child's error through with its own one-step path
CatchKeepsChildPath(e, pathSoFar) == e

CatchAmbiguousPath(e, pathSoFar) ==
  IF e.error = "AmbiguousPathError" THEN AmbiguousPathError(pathSoFar) ELSE e

\* the loop of Schema.atPath from schema s (or Undefined) over the steps left
RECURSIVE AtPathLoop(_, _, _)
AtPathLoop(s, path, pathSoFar) ==
  IF path = <<>> \/ s = Undefined THEN s
  ELSE LET soFar == pathSoFar \o <<Head(path)>>
           c == Child(s.heap, s.node, Head(path), {})
       IN  IF IsThrow(c) THEN CatchAmbiguousPath(c, soFar)
           ELSE AtPathLoop(c, Tail(path), soFar)

\* atPath(path): ScalarType overrides it to answer undefined for every path
AtPath(h, n, path) ==
  IF n.k \in ScalarKinds \cup {"enum"} THEN Undefined
  ELSE AtPathLoop(Compiled(n, h), path, <<>>)

\* the first outcome of a list that is not Undefined (a throw ends the loop)
RECURSIVE FirstDefined(_)
FirstDefined(rs) ==
  IF rs = <<>> THEN Undefined
  ELSE IF Head(rs) # Undefined THEN Head(rs) ELSE FirstDefined(Tail(rs))

IsDefined(r) == r # Undefined

\* xs.map(...).find(r => Array.isArray(r) || isObject(r))
MapFindComposite(rs) ==
  IF AnyThrow(rs) THEN FirstThrow(rs)
  ELSE LET hits == SelectSeq(rs, LAMBDA r : r.t \in {"array", "object"})
       IN  IF hits = <<>> THEN Undefined ELSE Head(hits)

RestrictString(v, options) ==
  IF v.t = "string" THEN v
  ELSE IF options.coerce /\ v.t \in {"number", "boolean", "null"}
  THEN Str(TemplateString(v))
  ELSE IF options.coerce /\ v.t = "binary" THEN Str(BufferToBase64(v))
  ELSE IF options.coerce /\ v.t = "date"
  THEN (IF v.c = "ms" THEN Str(ToISOString(v))
        ELSE RangeError("Invalid time value"))
  ELSE IF options.fillZero THEN Str("")
  ELSE Undefined

RestrictFloat(v, options) ==
  IF v.t = "number" THEN v
  ELSE IF options.coerce /\ v.t = "string" THEN UnaryPlus(v.s)
  ELSE IF options.coerce /\ v = Bool(TRUE) THEN Whole(1)
  ELSE IF options.coerce /\ (v = Bool(FALSE) \/ v.t \in {"null", "undefined"})
  THEN Whole(0)
  ELSE IF options.fillZero THEN Whole(0)
  ELSE Undefined

RestrictInteger(v, options) ==
  IF v.t = "number" /\ StrictEquals(v, MathFloor(v)) THEN v
  ELSE IF options.coerce /\ v.t = "number" THEN MathRound(v)
  ELSE IF options.coerce /\ v.t = "string" /\ ~ParseInt(v.s).nan
  THEN ParseInt(v.s)
  ELSE IF options.coerce /\ v = Bool(TRUE) THEN Whole(1)
  ELSE IF options.coerce /\ (v = Bool(FALSE) \/ v.t \in {"null", "undefined"})
  THEN Whole(0)
  ELSE IF options.coerce /\ v.t = "date" THEN GetTime(v)
  ELSE IF options.fillZero THEN Whole(0)
  ELSE Undefined

RestrictBinary(v, options) ==
  IF v.t = "binary" THEN v
  ELSE IF options.coerce /\ v.t = "string" THEN BufferFromBase64(v.s)
  ELSE IF options.fillZero THEN Bin("")
  ELSE Undefined

RestrictDate(v, options) ==
  IF v.t = "date" THEN v
  ELSE IF options.coerce /\ v.t \in {"string", "number"} THEN NewDate(v)
  ELSE IF options.fillZero THEN DateMs(0)
  ELSE Undefined

RestrictBoolean(v, options) ==
  IF v.t = "boolean" THEN v
  ELSE IF options.coerce THEN Bool(Truthy(v))
  ELSE IF options.fillZero THEN Bool(FALSE)
  ELSE Undefined

RestrictNull(v, options) ==
  IF v.t = "null" \/ (options.coerce /\ ~Truthy(v)) \/ options.fillZero
  THEN Null
  ELSE Undefined

RestrictEnum(n, v, options) ==
  IF \E i \in DOMAIN n.members : SameValueZero(n.members[i], v) THEN v
  ELSE IF options.fillZero THEN n.members[1]
  ELSE Undefined

\* RestrictOneOf trying the coercing restricts before the plain ones
RestrictOneOfCoercingFirst(h, n, options, plain, coerced, full) ==
  IF options.coerce /\ FirstDefined(coerced) # Undefined
  THEN FirstDefined(coerced)
  ELSE IF FirstDefined(plain) # Undefined THEN FirstDefined(plain)
  ELSE IF options.fillZero THEN ZeroValue(h, n)
  ELSE Undefined

\* OneOfType.restrict, given each subtype's restrict under {} (plain), under
\* {coerce: true} (coerced) and under the caller's options (full)
RestrictOneOf(h, n, options, plain, coerced, full) ==
  IF FirstDefined(plain) # Undefined THEN FirstDefined(plain)
  ELSE IF options.coerce /\ FirstDefined(coerced) # Undefined
  THEN FirstDefined(coerced)
  ELSE IF options.fillZero THEN ZeroValue(h, n)
  ELSE IF options.fillEmpty /\ IsThrow(HasFixedShape(h, n, {}))
  THEN HasFixedShape(h, n, {})
  ELSE IF options.fillEmpty /\ ~HasFixedShape(h, n, {}).b
  THEN MapFindComposite(full)
  ELSE Undefined

\* ObjectType.restrict / DictionaryType.restrict: fromPairs of the keys whose
\* restricted value is not undefined
RestrictedPairs(ks, rs) ==
  IF AnyThrow(rs) THEN FirstThrow(rs)
  ELSE Obj([k \in {ks[i] : i \in {j \in DOMAIN ks : rs[j] # Undefined}} |->
              rs[CHOOSE i \in DOMAIN ks : ks[i] = k]])

\* FillRequested with the fillEmpty option forgotten
FillRequestedByFillZeroOnly(options) == options.fillZero

\* FillRequested with the fillZero option forgotten
FillRequestedByFillEmptyOnly(options) == options.fillEmpty

\* the test FixpointType.restrict makes before it delegates
FillRequested(options) == options.fillEmpty \/ options.fillZero

RECURSIVE Restrict(_, _, _, _, _)
Restrict(h, n, v, options, active) ==
  CASE n.k = "string" -> RestrictString(v, options)
    [] n.k = "float" -> RestrictFloat(v, options)
    [] n.k = "integer" -> RestrictInteger(v, options)
    [] n.k = "binary" -> RestrictBinary(v, options)
    [] n.k = "date" -> RestrictDate(v, options)
    [] n.k = "boolean" -> RestrictBoolean(v, options)
    [] n.k = "null" -> RestrictNull(v, options)
    [] n.k = "enum" -> RestrictEnum(n, v, options)
    [] n.k = "oneof" ->
         RestrictOneOf(h, n, options,
           [i \in DOMAIN n.subtypes |->
              Restrict(h, n.subtypes[i], v, NoOptions, active)],
           [i \in DOMAIN n.subtypes |->
              Restrict(h, n.subtypes[i], v, CoerceOnly, active)],
           [i \in DOMAIN n.subtypes |->
              Restrict(h, n.subtypes[i], v, options, active)])
    [] n.k = "array" ->
         IF v.t = "array"
         THEN LET rs == [i \in DOMAIN v.e |->
                           Restrict(h, n.elementType, v.e[i], options, {})]
              IN  IF AnyThrow(rs) THEN FirstThrow(rs)
                  ELSE Arr(SelectSeq(rs, IsDefined))
         ELSE IF options.fillEmpty \/ options.fillZero THEN Arr(<<>>)
         ELSE Undefined
    [] n.k = "dictionary" ->
         IF v.t = "object"
         THEN LET ks == ObjectKeys(v.m)
              IN  RestrictedPairs(ks,
                    [i \in DOMAIN ks |->
                       Restrict(h, n.valueType, v.m[ks[i]], options, {})])
         ELSE IF options.fillEmpty \/ options.fillZero THEN Obj(<<>>)
         ELSE Undefined
    [] n.k = "object" ->
         IF v.t # "object" /\ ~options.fillZero /\ ~options.fillEmpty
         THEN Undefined
         ELSE LET base == IF v.t = "object" THEN v.m ELSE <<>>
                  ks == ObjectKeys(n.entries)
              IN  RestrictedPairs(ks,
                    [i \in DOMAIN ks |->
                       Restrict(h, n.entries[ks[i]],
                                IF ks[i] \in DOMAIN base THEN base[ks[i]]
                                ELSE Undefined,
                                options,
                                IF ks[i] \notin DOMAIN base /\ v = Undefined
                                THEN active ELSE {})])
    [] n.k = "any" -> v
    [] n.k = "fixpoint" ->
         IF FillRequested(options) THEN RecursionError(n.label)
         ELSE IF n \in active THEN StackOverflow
         ELSE Restrict(h, h[n], v, options, active \cup {n})

-----------------------------------------------------------------------------
(* The let/ref engine of src/unnamed/part_002: a schema document is       *)
(* {spartan?, let?, schema}; it is never compiled to a graph, the matcher  *)
(* and zeroValue walk the document itself.                                 *)

SchemaError(message, location) == [message |-> message, location |-> location]
Checked(ok, errors) == [ok |-> ok, errors |-> errors]

\* keys every plain object inherits from Object.prototype; of these the
\* model draws labels from toString and toLocaleString, two functions that
\* answer "[object Object]" when called on a plain object
InheritedKeys == {"toString", "toLocaleString"}

\* k in obj, which also holds of an inherited key
In(k, obj) == k \in DOMAIN obj \/ k \in InheritedKeys

\* obj[k] where k is inherited and not an own key: a function
Inherited(k) == [t |-> "function", name |-> k]

\* errors && errors.push(e)
Push(collect, e) == IF collect THEN <<e>> ELSE <<>>

\* CheckedAll breaking at the first failure with an errors list as well
RECURSIVE CheckedAllUntilFirstFailure(_, _)
CheckedAllUntilFirstFailure(rs, collect) ==
  IF rs = <<>> THEN Checked(TRUE, <<>>)
  ELSE IF ~Head(rs).ok THEN Checked(FALSE, Head(rs).errors)
  ELSE CheckedAllUntilFirstFailure(Tail(rs), collect)

\* the loops of isSchemaType: each element is checked in turn; without an
\* errors list the loop breaks at the first failure
RECURSIVE CheckedAll(_, _)
CheckedAll(rs, collect) ==
  IF rs = <<>> THEN Checked(TRUE, <<>>)
  ELSE IF ~Head(rs).ok /\ ~collect THEN Checked(FALSE, <<>>)
  ELSE LET rest == CheckedAll(Tail(rs), collect)
       IN  Checked(Head(rs).ok /\ rest.ok, Head(rs).errors \o rest.errors)

\* LRScalarNames with a name isSchemaType does not list
LRScalarNamesAndText ==
  {"null", "boolean", "integer", "float", "number", "string", "date", "binary",
   "text"}

\* the scalar type names isSchemaType accepts
LRScalarNames ==
  {"null", "boolean", "integer", "float", "number", "string", "date", "binary"}

RECURSIVE IsSchemaType(_, _, _, _)
IsSchemaType(schema, refs, location, collect) ==
  IF schema.t = "null" THEN Checked(TRUE, <<>>)
  ELSE IF schema.t = "array" THEN
    IF Len(schema.e) < 2
    THEN Checked(FALSE, Push(collect,
           SchemaError("Array types must have at least 2 elements", location)))
    ELSE IF schema.e[1].t # "string"
    THEN Checked(FALSE, Push(collect,
           SchemaError("Array types must start with a string",
                       location \o <<Whole(0)>>)))
    ELSE
    CASE schema.e[1].s = "enum" ->
           LET bad == SelectSeq([i \in 1..(Len(schema.e) - 1) |-> i],
                        LAMBDA i : schema.e[i + 1].t \notin
                                     {"boolean", "number", "string", "null"})
           IN  Checked(bad = <<>>,
                 IF collect
                 THEN [j \in DOMAIN bad |->
                         SchemaError("enum type elements must be scalars",
                                     location \o <<Whole(bad[j])>>)]
                 ELSE <<>>)
      [] schema.e[1].s \in {"tuple", "array", "oneof"} ->
           CheckedAll([i \in 1..(Len(schema.e) - 1) |->
                         IsSchemaType(schema.e[i + 1], refs,
                                      location \o <<Whole(i)>>, collect)],
                      collect)
      [] schema.e[1].s = "dictionary" ->
           IF Len(schema.e) # 2
           THEN Checked(FALSE, Push(collect,
                  SchemaError("dictionary type must have exactly 2 elements",
                              location)))
           ELSE IsSchemaType(schema.e[2], refs, location \o <<Whole(1)>>,
                             collect)
      [] schema.e[1].s = "ref" ->
           IF Len(schema.e) # 2
           THEN Checked(FALSE, Push(collect,
                  SchemaError("ref type must have exactly 2 elements",
                              location)))
           ELSE IF schema.e[2].t # "string"
           THEN Checked(FALSE, Push(collect,
                  SchemaError("ref type label must be a string",
                              location \o <<Whole(1)>>)))
           ELSE IF ~In(schema.e[2].s, refs)
           THEN Checked(FALSE, Push(collect,
                  SchemaError("ref type refers to nonexistent variable",
                              location \o <<Whole(1)>>)))
           ELSE Checked(TRUE, <<>>)
      [] schema.e[1].s = "optional" ->
           Checked(FALSE, Push(collect,
             SchemaError("optional type is only allowed as an object key",
                         location)))
      [] OTHER ->
           Checked(FALSE, Push(collect,
             SchemaError("Unknown array type", location \o <<Whole(0)>>)))
  ELSE IF schema.t = "object" THEN
    LET ks == ObjectKeys(schema.m)
        CheckKey(k) ==
          LET v == schema.m[k]
          IN  IF v.t = "array" /\ Len(v.e) > 0 /\ v.e[1] = Str("optional")
              THEN (IF Len(v.e) # 2
                    THEN Checked(FALSE, Push(collect,
                           SchemaError(
                             "optional type must have exactly 2 elements",
                             location \o <<Str(k)>>)))
                    ELSE IsSchemaType(v.e[2], refs, location \o <<Str(k)>>,
                                      collect))
              ELSE IsSchemaType(v, refs, location \o <<Str(k)>>, collect)
    IN  CheckedAll([i \in DOMAIN ks |-> CheckKey(ks[i])], collect)
  ELSE IF schema.t = "string" THEN
    IF schema.s \in LRScalarNames THEN Checked(TRUE, <<>>)
    ELSE Checked(FALSE, Push(collect,
           SchemaError("Unknown scalar type", location)))
  ELSE Checked(FALSE, Push(collect,
         SchemaError("Literal value outside enum", location)))

\* isSchema(schema, errors?): collect says whether an errors list was passed
IsSchema(doc, collect) ==
  IF doc.t # "object"
  THEN Checked(FALSE, Push(collect,
         SchemaError("Schema must be an object", <<>>)))
  ELSE
  LET badSpartan == "spartan" \in DOMAIN doc.m /\ doc.m["spartan"] # Whole(1)
      spartan ==
        IF badSpartan
        THEN Checked(FALSE, Push(collect,
               SchemaError("Schema property spartan must be 1, if present",
                           <<Str("spartan")>>)))
        ELSE Checked(TRUE, <<>>)
      hasLet == "let" \in DOMAIN doc.m
      letIsObject == hasLet /\ doc.m["let"].t = "object"
      refs == IF letIsObject THEN doc.m["let"].m ELSE <<>>
      ks == ObjectKeys(refs)
      lets ==
        IF letIsObject
        THEN CheckedAll([i \in DOMAIN ks |->
                           IsSchemaType(refs[ks[i]], refs,
                                        <<Str("let"), Str(ks[i])>>, collect)],
                        collect)
        ELSE IF hasLet
        THEN Checked(FALSE, Push(collect,
               SchemaError("Schema property let must be an object, if present",
                           <<Str("let")>>)))
        ELSE Checked(TRUE, <<>>)
      body ==
        IF "schema" \in DOMAIN doc.m
        THEN IsSchemaType(doc.m["schema"], refs, <<Str("schema")>>, collect)
        ELSE Checked(FALSE, Push(collect,
               SchemaError("Schema must have a schema property", <<>>)))
  IN  IF ~collect /\ (~spartan.ok \/ ~lets.ok) THEN Checked(FALSE, <<>>)
      ELSE Checked(spartan.ok /\ lets.ok /\ body.ok,
                   spartan.errors \o lets.errors \o body.errors)

ValidationError(dataPath, schemaPath, message) ==
  [dataPath |-> dataPath, schemaPath |-> schemaPath, message |-> message]
OneOfError(dataPath, schemaPath, message, children) ==
  [dataPath |-> dataPath, schemaPath |-> schemaPath, message |-> message,
   children |-> children]
Errors(list) == [t |-> "errors", list |-> list]

\* Array.prototype.join
RECURSIVE Join(_, _)
Join(ss, sep) ==
  IF ss = <<>> THEN ""
  ELSE IF Len(ss) = 1 THEN ss[1]
  ELSE ss[1] \o sep \o Join(Tail(ss), sep)

\* JSON.stringify of a value made of scalars, arrays and plain objects
RECURSIVE JsonStringify(_)
JsonStringify(v) ==
  CASE v.t = "string" -> "\"" \o v.s \o "\""
    [] v.t = "number" -> (IF v.nan THEN "null" ELSE NumberToString(v))
    [] v.t \in {"boolean", "null"} -> TemplateString(v)
    [] v.t = "function" -> "undefined"
    [] v.t = "array" ->
         "[" \o Join([i \in DOMAIN v.e |-> JsonStringify(v.e[i])], ",") \o "]"
    [] v.t = "object" ->
         LET ks == ObjectKeys(v.m)
         IN  "{" \o Join([i \in DOMAIN ks |->
                            "\"" \o ks[i] \o "\":" \o JsonStringify(v.m[ks[i]])],
                         ",") \o "}"

TypeError(msg) == [t |-> "throw", error |-> "TypeError", msg |-> msg]

\* what a validator returns that is no list of errors: the string an
\* inherited function answered
Answered(s) == [t |-> "answered", s |-> s]

\* result.length of what a validator returned
LengthOf(r) == IF r.t = "answered" THEN Len(r.s) ELSE Len(r.list)

\* what a validator returned, as a value: children.push keeps it whatever
\* its kind
AsReturned(r) == IF r.t = "answered" THEN Str(r.s) ELSE Arr(r.list)

\* what flatMap adds for what a validator returned: a string is one element
AsElements(r) == IF r.t = "answered" THEN <<Str(r.s)>> ELSE r.list

\* ...result: a string spreads into its characters
Spread(r) ==
  IF r.t = "answered"
  THEN [i \in 1..Len(r.s) |-> Str(SubSeq(r.s, i, i))]
  ELSE r.list

\* flatMap of validators over children: the first throw, or all errors
FlatMapErrors(rs) ==
  IF AnyThrow(rs) THEN FirstThrow(rs)
  ELSE Errors(Flatten([i \in DOMAIN rs |-> AsElements(rs[i])]))

\* OneOfLoop answering with the alternatives' errors flattened into one list
OneOfLoopFlattened(rs, children, dataPath, schemaPath) == FlatMapErrors(rs)

\* the loop of the oneof validator over its alternatives' outcomes: stop at
\* the first alternative without errors, else collect every error list
RECURSIVE OneOfLoop(_, _, _, _)
OneOfLoop(rs, children, dataPath, schemaPath) ==
  IF rs = <<>>
  THEN Errors(<<OneOfError(dataPath, schemaPath,
                           "all " \o ToString(Len(children)) \o " options failed",
                           children)>>)
  ELSE IF IsThrow(Head(rs)) THEN Head(rs)
  ELSE IF LengthOf(Head(rs)) = 0 THEN Errors(<<>>)
  ELSE OneOfLoop(Tail(rs), Append(children, AsReturned(Head(rs))), dataPath,
                 schemaPath)

\* PredicateFor with every element handed to the last predicate
PredicateForAlwaysLast(j, n) == n

\* the predicate of an array type with n > 1 arguments that checks the j-th
\* element: predicates[i < n - 1 ? i : n - 1] for i = j - 1, counted from 1
PredicateFor(j, n) == IF j - 1 < n - 1 THEN j ELSE n

\* The validator validateSchemaType(schema, refValidators, schemaPath) builds,
\* applied to (value, dataPath).  refs is the let block: matchesSchema
\* registers one validator per let entry, built with schemaPath ['let', k],
\* and a ref looks its validator up when it is applied.  `active` is the set
\* of labels entered since the walk last moved to a child of the value.
RECURSIVE ValidateSchemaType(_, _, _, _, _, _)
ValidateSchemaType(schema, refs, schemaPath, v, dataPath, active) ==
  LET expected(what) ==
        Errors(<<ValidationError(dataPath, schemaPath, "expected " \o what)>>)
      ok == Errors(<<>>)
      Args == Tail(schema.e)
      Each(i) ==
        ValidateSchemaType(Args[i], refs, schemaPath \o <<Whole(i)>>,
                           v, dataPath, active)
      Element(i, j) ==
        ValidateSchemaType(Args[i], refs, schemaPath \o <<Whole(i)>>,
                           v.e[j], dataPath \o <<Whole(j - 1)>>, {})
  IN
  IF schema.t = "null" THEN (IF v.t = "null" THEN ok ELSE expected("null"))
  ELSE IF schema.t = "array" /\ schema.e # <<>> THEN
    CASE schema.e[1] = Str("enum") ->
           IF \E i \in DOMAIN Args : StrictEquals(Args[i], v) THEN ok
           ELSE IF Len(schema.e) = 2
           THEN expected("the exact value " \o JsonStringify(Args[1]))
           ELSE expected("one of "
                  \o Join([i \in DOMAIN Args |-> JsonStringify(Args[i])], ", "))
      [] schema.e[1] = Str("tuple") ->
           IF v.t # "array" THEN expected("array")
           ELSE IF Len(v.e) # Len(Args)
           THEN expected("array of exactly " \o ToString(Len(Args))
                         \o " values, got " \o ToString(Len(v.e)))
           ELSE FlatMapErrors([j \in DOMAIN v.e |-> Element(j, j)])
      [] schema.e[1] = Str("array") ->
           IF v.t # "array" THEN expected("array")
           ELSE IF Len(schema.e) = 2
           THEN FlatMapErrors([j \in DOMAIN v.e |-> Element(1, j)])
           ELSE IF Args = <<>> /\ v.e # <<>>
           THEN TypeError("predicates[-1] is not a function")
           ELSE IF Len(v.e) < Len(Args) - 1
           THEN expected("array of at least " \o ToString(Len(Args) - 1)
                         \o " values, got " \o ToString(Len(v.e)))
           ELSE FlatMapErrors(
                  [j \in DOMAIN v.e |->
                     Element(PredicateFor(j, Len(Args)), j)])
      [] schema.e[1] = Str("dictionary") ->
           IF v.t # "object" THEN expected("object")
           ELSE LET ks == ObjectKeys(v.m)
                IN  FlatMapErrors(
                      [i \in DOMAIN ks |->
                         ValidateSchemaType(Args[1], refs,
                                            schemaPath \o <<Whole(1)>>,
                                            v.m[ks[i]],
                                            dataPath \o <<Str(ks[i])>>, {})])
      [] schema.e[1] = Str("oneof") ->
           OneOfLoop([i \in DOMAIN Args |-> Each(i)], <<>>, dataPath,
                     schemaPath)
      [] schema.e[1] = Str("ref") ->
           IF Args # <<>> /\ Args[1].t = "string" /\ Args[1].s \in DOMAIN refs
           THEN (IF Args[1].s \in active THEN StackOverflow
                 ELSE ValidateSchemaType(refs[Args[1].s], refs,
                                         <<Str("let"), Args[1]>>, v, dataPath,
                                         active \cup {Args[1].s}))
           ELSE IF /\ Args # <<>>
                   /\ Args[1].t = "string"
                   /\ Args[1].s \in InheritedKeys
           THEN Answered("[object Object]")
           ELSE Errors(<<ValidationError(dataPath, schemaPath,
                  "broken ref: schema has no let definition named "
                    \o (IF Args = <<>> THEN "undefined"
                        ELSE JsonStringify(Args[1])))>>)
      [] OTHER ->
           Errors(<<ValidationError(dataPath, schemaPath, "bad schema")>>)
  ELSE IF schema.t = "object" THEN
    LET ks == ObjectKeys(schema.m)
        IsOptional(k) ==
          /\ schema.m[k].t = "array"
          /\ schema.m[k].e # <<>>
          /\ schema.m[k].e[1] = Str("optional")
        Field(k) ==
          IF k \in DOMAIN v.m
          THEN ValidateSchemaType(
                 IF ~IsOptional(k) THEN schema.m[k]
                 ELSE IF Len(schema.m[k].e) >= 2 THEN schema.m[k].e[2]
                 ELSE Undefined,
                 refs,
                 schemaPath \o <<Str(k)>>
                   \o (IF IsOptional(k) THEN <<Whole(1)>> ELSE <<>>),
                 v.m[k], dataPath \o <<Str(k)>>, {})
          ELSE IF IsOptional(k) THEN ok
          ELSE Errors(<<ValidationError(dataPath, schemaPath,
                                        "missing required field \"" \o k \o "\"")>>)
    IN  IF v.t # "object" THEN expected("object")
        ELSE FlatMapErrors([i \in DOMAIN ks |-> Field(ks[i])])
  ELSE IF schema = Str("null") THEN
    (IF v.t = "null" THEN ok ELSE expected("null"))
  ELSE IF schema = Str("boolean") THEN
    (IF v.t = "boolean" THEN ok ELSE expected("boolean"))
  ELSE IF schema \in {Str("float"), Str("number")} THEN
    (IF v.t = "number" THEN ok ELSE expected("number"))
  ELSE IF schema = Str("integer") THEN
    (IF IsInteger(v) THEN ok ELSE expected("integer"))
  ELSE IF schema = Str("string") THEN
    (IF v.t = "string" THEN ok ELSE expected("string"))
  ELSE IF schema = Str("date") THEN
    (IF v.t = "date" THEN ok ELSE expected("date"))
  ELSE IF schema = Str("binary") THEN
    (IF v.t = "binary" THEN ok ELSE expected("binary"))
  ELSE Errors(<<ValidationError(dataPath, schemaPath, "bad schema")>>)

\* the destructuring {schema, let: refs = {}} of a document: a property that
\* is not there is undefined, a let block without entries defines no label
SchemaOf(doc) ==
  IF doc.t = "object" /\ "schema" \in DOMAIN doc.m
  THEN doc.m["schema"] ELSE Undefined
LetOf(doc) ==
  IF doc.t = "object" /\ "let" \in DOMAIN doc.m /\ doc.m["let"].t = "object"
  THEN doc.m["let"].m ELSE <<>>

\* the errors matchesSchema(doc)(value, errors) appends, or what it throws
MatcherErrors(doc, v) ==
  ValidateSchemaType(SchemaOf(doc), LetOf(doc), <<Str("schema")>>, v, <<>>,
                     {})

\* matchesSchema(doc)(value, errors): the boolean it returns and what it
\* pushes onto errors, unless the validator throws
MatchesSchema(doc, v) ==
  LET r == MatcherErrors(doc, v)
  IN  IF IsThrow(r) THEN r
      ELSE [t |-> "matched", b |-> LengthOf(r) = 0,
            errors |-> IF LengthOf(r) = 0 THEN <<>> ELSE Spread(r)]

\* schema.slice(1, schema.length - 1): the positions of the arguments of an
\* array type but the last
ArrayPrefix(schema) == [i \in 1..(Len(schema.e) - 2) |-> i + 1]

\* what typeZeroValue throws when it meets a schema object twice
InfiniteSchemaError(schema) ==
  [t |-> "throw", error |-> "Error",
   msg |-> "Cannot determine zero value of the infinite schema type "
             \o JsonStringify(schema)]

\* a result of typeZeroValue together with the history set it leaves behind
Zeroed(r, history) == [r |-> r, history |-> history]

\* typeZeroValue(schema, refs, history).  The history is a Set of schema
\* objects compared by identity: an object of the document is identified by
\* its location in the document, the body of let entry k by <<let, k>>.  The
\* set is shared by the whole walk and nothing is ever removed from it.
RECURSIVE TypeZeroValue(_, _, _, _)
RECURSIVE ZeroMap(_, _, _, _, _)
\* Array.prototype.map(n => typeZeroValue(n, refs, history)) over the
\* elements first..last of an array schema
ZeroMap(schema, loc, refs, history, range) ==
  IF range = <<>> THEN Zeroed(Arr(<<>>), history)
  ELSE LET i == Head(range)
           head == TypeZeroValue(schema.e[i], loc \o <<Whole(i - 1)>>, refs,
                                 history)
       IN  IF IsThrow(head.r) THEN head
           ELSE LET rest == ZeroMap(schema, loc, refs, head.history,
                                    Tail(range))
                IN  IF IsThrow(rest.r) THEN rest
                    ELSE Zeroed(Arr(<<head.r>> \o rest.r.e), rest.history)

RECURSIVE ZeroReduce(_, _, _, _, _)
\* the reduce over the entries of an object schema that are not optional
ZeroReduce(schema, loc, refs, history, ks) ==
  IF ks = <<>> THEN Zeroed([t |-> "pairs", list |-> <<>>], history)
  ELSE LET k == Head(ks)
           head == TypeZeroValue(schema.m[k], loc \o <<Str(k)>>, refs, history)
       IN  IF IsThrow(head.r) THEN head
           ELSE LET rest == ZeroReduce(schema, loc, refs, head.history,
                                       Tail(ks))
                IN  IF IsThrow(rest.r) THEN rest
                    ELSE Zeroed([t |-> "pairs",
                                 list |-> <<<<k, head.r>>>> \o rest.r.list],
                                rest.history)

TypeZeroValue(schema, loc, refs, history) ==
  IF schema.t = "null" THEN Zeroed(Null, history)
  ELSE IF schema.t = "string" THEN
    Zeroed(CASE schema.s = "null" -> Null
             [] schema.s = "boolean" -> Bool(FALSE)
             [] schema.s \in {"float", "integer", "number"} -> Whole(0)
             [] schema.s = "string" -> Str("")
             [] schema.s = "date" -> DateMs(0)
             [] schema.s = "binary" -> Bin("")
             [] OTHER -> Undefined,
           history)
  ELSE IF loc \in history THEN Zeroed(InfiniteSchemaError(schema), history)
  ELSE
  LET seen == history \cup {loc}
      label == schema.e[2].s
  IN  IF schema.t = "array" /\ schema.e # <<>> THEN
        CASE schema.e[1] = Str("enum") ->
               Zeroed(IF Len(schema.e) >= 2 THEN schema.e[2] ELSE Undefined,
                      seen)
          [] schema.e[1] = Str("tuple") ->
               ZeroMap(schema, loc, refs, seen,
                       [i \in 1..(Len(schema.e) - 1) |-> i + 1])
          [] schema.e[1] = Str("array") ->
               ZeroMap(schema, loc, refs, seen, ArrayPrefix(schema))
          [] schema.e[1] = Str("dictionary") -> Zeroed(Obj(<<>>), seen)
          [] schema.e[1] = Str("oneof") ->
               IF Len(schema.e) >= 2
               THEN TypeZeroValue(schema.e[2], loc \o <<Whole(1)>>, refs, seen)
               ELSE Zeroed(Undefined, seen)
          [] schema.e[1] = Str("ref") ->
               IF /\ Len(schema.e) >= 2
                  /\ schema.e[2].t = "string"
                  /\ schema.e[2].s \in DOMAIN refs
               THEN TypeZeroValue(refs[schema.e[2].s],
                                  <<Str("let"), schema.e[2]>>, refs, seen)
               ELSE IF /\ Len(schema.e) >= 2
                       /\ schema.e[2].t = "string"
                       /\ label \in InheritedKeys
               THEN TypeZeroValue(Inherited(label),
                                  <<Str("prototype"), schema.e[2]>>, refs,
                                  seen)
               ELSE Zeroed(Undefined, seen)
          [] OTHER -> Zeroed(Undefined, seen)
      ELSE IF schema.t = "object" THEN
        LET ks == SelectSeq(ObjectKeys(schema.m),
                    LAMBDA k : ~(/\ schema.m[k].t = "array"
                                 /\ schema.m[k].e # <<>>
                                 /\ schema.m[k].e[1] = Str("optional")))
            r == ZeroReduce(schema, loc, refs, seen, ks)
        IN  IF IsThrow(r.r) THEN r
            ELSE Zeroed(Obj(FromPairs(r.r.list)), r.history)
      ELSE Zeroed(Undefined, seen)

\* zeroValue({schema, let: refs = {}})
LRZeroValue(doc) ==
  TypeZeroValue(SchemaOf(doc), <<Str("schema")>>, LetOf(doc), {}).r

-----------------------------------------------------------------------------
(* Inputs: the values, the schema sources and the schema documents the     *)
(* runs draw from                                                          *)

DataKeys == {"a", "b"}
SeqsUpTo(S, n) == UNION {[1..m -> S] : m \in 0..n}
MapsOver(K, S) == UNION {[D -> S] : D \in SUBSET K}

\* a tagged array: [name, ...args]
Tag(name, args) == Arr(<<Str(name)>> \o args)

\* the values handed to validate, restrict and the matcher
Values ==
  LET Numbers == {Num(h) : h \in 0..MaxNumH} \cup {NaN}
      Strings == {Str(""), Str("a"), Str("1"), Str("null")}
      ScalarValues ==
        {Null, Bool(TRUE), Bool(FALSE), Bin(""), DateMs(0)}
          \cup Numbers \cup Strings
      \* the values put inside arrays and objects
      ElementValues == {Null, Whole(1), Str("a")}
      FlatValues ==
        {Arr(e) : e \in SeqsUpTo(ElementValues, MaxArrayLen)}
          \cup {Obj(m) : m \in MapsOver(DataKeys, ElementValues)}
      InnerValues ==
        {Arr(<<>>), Arr(<<Whole(1)>>), Obj(<<>>), Obj([a |-> Str("a")]),
         Obj([b |-> Whole(1)])}
      NestedValues ==
        {Arr(<<c>>) : c \in InnerValues}
          \cup {Obj([a |-> c]) : c \in InnerValues}
      \* sequences for the array types with a typed prefix
      PrefixedValues ==
        {Arr(<<Whole(1), Str("a")>>), Arr(<<Whole(1), Whole(1)>>),
         Arr(<<Str("a"), Whole(1)>>), Arr(<<Whole(1), Str("a"), Str("a")>>),
         Arr(<<Whole(1), Str("a"), Null>>),
         Arr(<<Whole(1), Str("a"), Null, Null>>),
         Arr(<<Whole(1), Str("a"), Null, Str("a")>>)}
      LoopValues ==
        {Obj([loop |-> Obj(<<>>)]), Obj([loop |-> Obj([loop |-> Obj(<<>>)])]),
         Obj([loop |-> Obj([loop |-> Whole(1)])])}
  IN  ScalarValues \cup FlatValues \cup NestedValues \cup PrefixedValues
        \cup LoopValues

\* the schema of schema documents, written as a schema document
spartanSchemaSchema ==
  LET Ref(name) == Tag("ref", <<Str(name)>>)
      Keyword(name) == Tag("enum", <<Str(name)>>)
  IN  Obj([spartan |-> Whole(1),
           let |-> Obj([
             EnumValue |->
               Tag("oneof", <<Null, Str("boolean"), Str("number"),
                              Str("string")>>),
             Type |->
               Tag("oneof", <<
                 Tag("enum", <<Null, Str("null"), Str("boolean"),
                               Str("integer"), Str("float"), Str("number"),
                               Str("string"), Str("date"), Str("binary")>>),
                 Tag("array", <<Keyword("enum"), Ref("EnumValue"),
                                Ref("EnumValue")>>),
                 Tag("array", <<Keyword("oneof"), Ref("Type"), Ref("Type")>>),
                 Tag("array", <<Keyword("tuple"), Ref("Type"), Ref("Type")>>),
                 Tag("array", <<Keyword("array"), Ref("Type"), Ref("Type")>>),
                 Tag("tuple", <<Keyword("dictionary"), Ref("Type")>>),
                 Tag("tuple", <<Keyword("ref"), Str("string")>>),
                 Tag("dictionary", <<
                   Tag("oneof", <<
                     Tag("tuple", <<Keyword("optional"), Ref("Type")>>),
                     Ref("Type")>>)>>)>>)]),
           schema |-> Obj([
             spartan |-> Tag("optional", <<Tag("enum", <<Whole(1)>>)>>),
             let |-> Tag("optional",
                         <<Tag("dictionary", <<Ref("Type")>>)>>),
             schema |-> Ref("Type")])])

\* the documents of the let/ref engine
Docs ==
  LET Ref(name) == Tag("ref", <<Str(name)>>)
      Doc(lets, schema) == Obj([let |-> Obj(lets), schema |-> schema])
      Leaves == {Str(k) : k \in LRScalarNames} \cup {Null}
      SmallLeaves == {Str("string"), Str("integer"), Null}
      PlainSchemas ==
        Leaves
          \cup {Tag("array", <<t>>) : t \in SmallLeaves}
          \cup {Tag("array", <<t, u>>) : t, u \in SmallLeaves}
          \cup {Tag("array", <<Str("integer"), Str("string"), Null>>)}
          \cup {Tag("tuple", <<t>>) : t \in SmallLeaves}
          \cup {Tag("dictionary", <<t>>) : t \in SmallLeaves}
          \cup {Tag("oneof", <<t, u>>) : t, u \in SmallLeaves}
          \cup {Tag("enum", <<Str("a")>>), Tag("enum", <<Whole(1), Null>>)}
          \cup {Obj(m) :
                  m \in MapsOver(DataKeys, {Str("string"), Str("integer")})}
          \cup {Obj([a |-> Tag("optional", <<t>>)]) : t \in SmallLeaves}
          \cup {Obj([a |-> Tag("array", <<Str("integer")>>),
                     b |-> Tag("oneof", <<Null, Str("string")>>)])}
      LetBodies ==
        {Str("integer"), Obj([a |-> Str("integer")]),
         Tag("array", <<Str("string")>>),
         Obj([loop |-> Ref("A")]),
         Obj([loop |-> Tag("optional", <<Ref("A")>>)]),
         Ref("A"), Tag("array", <<Ref("A")>>),
         Tag("oneof", <<Null, Ref("A")>>), Tag("oneof", <<Ref("A"), Null>>),
         Tag("oneof", <<Null, Obj([loop |-> Ref("A")])>>)}
      LetUses ==
        {Ref("A"), Obj([a |-> Ref("A")]),
         Obj([a |-> Ref("A"), b |-> Ref("A")]),
         Tag("tuple", <<Ref("A"), Ref("A")>>), Tag("array", <<Ref("A")>>),
         Tag("oneof", <<Ref("A"), Str("boolean")>>)}
      LetDocs ==
        {Doc("A" :> body, use) : body \in LetBodies, use \in LetUses}
          \cup {Doc("A" :> body @@ "B" :> via, Ref("B")) :
                  body \in {Str("integer"), Obj([a |-> Str("integer")]),
                            Ref("B")},
                  via \in {Ref("A"), Obj([a |-> Ref("A"), b |-> Ref("A")]),
                           Tag("oneof", <<Str("string"), Ref("A")>>)}}
      BadDocs ==
        {Str("string"), Obj(<<>>), Obj([let |-> Whole(1)]),
         Obj([spartan |-> Whole(2), schema |-> Str("text")]),
         Obj([let |-> Whole(1), schema |-> Ref("A")]),
         Obj([schema |-> Tag("optional", <<Str("string")>>)]),
         Obj([schema |-> Tag("dictionary", <<Str("string"), Str("string")>>)]),
         Obj([schema |-> Tag("enum", <<Str("a"), Obj(<<>>)>>)]),
         Obj([schema |-> Whole(1)]),
         Obj([schema |-> Obj([a |-> Str("text"), b |-> Whole(1)])]),
         Obj([schema |-> Obj([a |-> Tag("optional", <<>>), b |-> Str("text")])]),
         Obj([schema |-> Tag("tuple", <<Str("text"), Null, Whole(1)>>)]),
         Obj([schema |-> Tag("oneof", <<Arr(<<>>), Ref("A")>>)]),
         Obj([spartan |-> Whole(2), let |-> Obj([A |-> Str("text")]),
              schema |-> Tag("array", <<Str("text"), Str("text")>>)]),
         Doc("A" :> Ref("B"), Obj([a |-> Tag("maybe", <<Ref("A")>>)]))}
      \* references to labels that no let block defines but every object
      \* inherits
      InheritedDocs ==
        {Obj([schema |-> Ref("toString")]),
         Obj([schema |-> Tag("oneof", <<Ref("toLocaleString"), Null>>)]),
         Doc("A" :> Ref("toString"), Tag("array", <<Ref("A")>>))}
  IN  {Obj([schema |-> t]) : t \in PlainSchemas}
        \cup {Obj([spartan |-> Whole(1), schema |-> Str("string")])}
        \cup LetDocs \cup BadDocs \cup InheritedDocs
        \cup {spartanSchemaSchema}

\* the sources handed to compileSchema
Sources ==
  LET LeafSources ==
        {Str(k) : k \in ScalarKinds \cup {"any"}}
          \cup {Null, Tag("enum", <<Str("a"), Whole(1)>>)}
      SmallLeafSources ==
        {Str("string"), Str("integer"), Str("boolean"), Str("any")}
      FlatSources ==
        {Arr(<<t>>) : t \in LeafSources}
          \cup {Tag("dictionary", <<t>>) : t \in SmallLeafSources}
          \cup {Obj(m) : m \in MapsOver(DataKeys, SmallLeafSources)}
          \cup {Obj([a |-> t]) : t \in LeafSources}
          \cup {Tag("oneof", <<t, u>>) :
                  t \in SmallLeafSources \cup {Str("null")},
                  u \in SmallLeafSources}
      InnerSources ==
        {Arr(<<Str("string")>>), Arr(<<Str("integer")>>),
         Obj([a |-> Str("string")]), Obj([b |-> Str("integer")]),
         Tag("dictionary", <<Str("integer")>>)}
      NestedSources ==
        {Tag("oneof", <<c, d>>) :
           c \in InnerSources \cup {Str("string")},
           d \in InnerSources \cup {Str("integer")}}
          \cup {Arr(<<c>>) : c \in InnerSources}
          \cup {Obj([a |-> Tag("oneof", <<c, d>>)]) :
                  c \in {Arr(<<Str("string")>>), Obj([a |-> Str("string")])},
                  d \in {Obj([b |-> Str("integer")]), Str("integer")}}
          \cup {Tag("oneof",
                    <<Tag("oneof", <<Str("string"), Str("integer")>>), t>>) :
                  t \in {Str("boolean"), Arr(<<Str("string")>>)}}
      \* an object source with label bindings and entries
      Labelled(bindings, entries) == Obj(bindings @@ entries)
      LabelBodies ==
        {Str("integer"), Arr(<<Str("string")>>), Obj([a |-> Str("integer")]),
         Obj([loop |-> Str("$A")]), Str("$A"), Arr(<<Str("$A")>>),
         Tag("oneof", <<Str("string"), Str("$A")>>),
         Tag("oneof", <<Str("$A"), Str("string")>>)}
      LabelUses ==
        {[a |-> Str("$A")], [a |-> Str("$A"), b |-> Str("$A")],
         [a |-> Arr(<<Str("$A")>>)], [a |-> Obj([b |-> Str("$A")])],
         [a |-> Tag("oneof", <<Str("$A"), Str("boolean")>>)]}
      LabelSources ==
        {Labelled("$A" :> body, use) : body \in LabelBodies, use \in LabelUses}
          \cup {Labelled("$A" :> body @@ "$B" :> via, [a |-> Str("$B")]) :
                  body \in {Str("integer"), Obj([a |-> Str("integer")]),
                            Obj([loop |-> Str("$B")])},
                  via \in {Str("$A"), Obj([a |-> Str("$A")]),
                           Obj([a |-> Str("$A"), b |-> Str("$A")]),
                           Tag("oneof", <<Str("$A"), Str("boolean")>>)}}
          \cup {Labelled("$$a" :> Str("string"), m) :
                  m \in {<<>>, [a |-> Str("integer")]}}
      BadSources ==
        {Str("text"), Str("$A"), Whole(1), Bool(TRUE), Arr(<<>>),
         Obj([a |-> Labelled("$A" :> Str("integer"), [a |-> Str("$A")]),
              b |-> Str("$A")]),
         Labelled("$A" :> Str("$B"), [a |-> Str("$A")]),
         Tag("tuple", <<Str("string")>>),
         Tag("dictionary", <<Str("string"), Str("string")>>),
         Tag("enum", <<Str("a"), Arr(<<>>)>>),
         Obj([a |-> Str("string"), b |-> Str("$A")]),
         Labelled("$A" :> Str("integer"), [a |-> Obj([b |-> Str("$B")])]),
         Labelled("$schema" :> Str("http://json-schema.org/schema"),
                  [a |-> Str("string")])}
  IN  LeafSources \cup FlatSources \cup NestedSources \cup LabelSources
        \cup BadSources

RestrictOptions ==
  [fillEmpty : BOOLEAN, fillZero : BOOLEAN, coerce : BOOLEAN]

\* the steps handed to child
Paths == {Str("a"), Str("b"), Str("loop"), Whole(0)}

\* the paths handed to atPath
PathLists == SeqsUpTo(Paths, MaxPathLen)

-----------------------------------------------------------------------------
(* The state machine: a caller compiles one source and then calls the     *)
(* operations of the compiled schema, in any order, any number of times;  *)
(* every call runs to its end and returns before the next one starts.     *)

NotCompiled == [t |-> "none"]
NoCall == [op |-> "none"]
Idle == [op |-> "idle"]

Init ==
  /\ \/ impl = "compiled" /\ source \in Sources
     \/ impl = "letref" /\ source \in Docs
  /\ value = Undefined
  /\ compiled = NotCompiled
  /\ call = NoCall
  /\ result = Undefined

Compile ==
  /\ impl = "compiled"
  /\ compiled = NotCompiled
  /\ compiled' = CompileSchema(source, <<>>, <<>>)
  /\ call' = [op |-> "compileSchema"]
  /\ result' = Undefined
  /\ UNCHANGED <<impl, source, value>>

\* a schema graph is at hand and no call is running
Ready ==
  /\ impl = "compiled"
  /\ compiled.t = "schema"
  /\ call.op \in {"compileSchema", "idle"}

\* the caller takes the outcome of the last call
Return ==
  /\ call.op \notin {"none", "compileSchema", "idle"}
  /\ call' = Idle
  /\ value' = Undefined
  /\ result' = Undefined
  /\ UNCHANGED <<impl, source, compiled>>

CallValidate(v, allowExtraFields) ==
  /\ Ready
  /\ value' = v
  /\ call' = [op |-> "validate", allowExtraFields |-> allowExtraFields]
  /\ result' = Validate(compiled.heap, compiled.node, v, <<>>,
                        allowExtraFields, {})
  /\ UNCHANGED <<impl, source, compiled>>

CallRestrict(v, options) ==
  /\ Ready
  /\ value' = v
  /\ call' = [op |-> "restrict", options |-> options]
  /\ result' = Restrict(compiled.heap, compiled.node, v, options, {})
  /\ UNCHANGED <<impl, source, compiled>>

\* CallZeroValue leaving its visit behind in the graph: the node it started
\* from is replaced
CallZeroValueMarking ==
  /\ Ready
  /\ value' = Undefined
  /\ call' = [op |-> "zeroValue"]
  /\ result' = ZeroValue(compiled.heap, compiled.node)
  /\ compiled' = [compiled EXCEPT !.node = AnyNode]
  /\ UNCHANGED <<impl, source>>

CallZeroValue ==
  /\ Ready
  /\ value' = Undefined
  /\ call' = [op |-> "zeroValue"]
  /\ result' = ZeroValue(compiled.heap, compiled.node)
  /\ UNCHANGED <<impl, source, compiled>>

CallHasFixedShape ==
  /\ Ready
  /\ value' = Undefined
  /\ call' = [op |-> "hasFixedShape"]
  /\ result' = HasFixedShape(compiled.heap, compiled.node, {})
  /\ UNCHANGED <<impl, source, compiled>>

CallIsRecursive ==
  /\ Ready
  /\ value' = Undefined
  /\ call' = [op |-> "isRecursive"]
  /\ result' = Bool(IsRecursive(compiled.heap, compiled.node))
  /\ UNCHANGED <<impl, source, compiled>>

CallChild(path) ==
  /\ Ready
  /\ value' = Undefined
  /\ call' = [op |-> "child", path |-> path]
  /\ result' = Child(compiled.heap, compiled.node, path, {})
  /\ UNCHANGED <<impl, source, compiled>>

CallAtPath(path) ==
  /\ Ready
  /\ value' = Undefined
  /\ call' = [op |-> "atPath", path |-> path]
  /\ result' = AtPath(compiled.heap, compiled.node, path)
  /\ UNCHANGED <<impl, source, compiled>>

CallToSource ==
  /\ Ready
  /\ value' = Undefined
  /\ call' = [op |-> "toSource"]
  /\ result' = ToSource(compiled.heap, compiled.node, {})
  /\ UNCHANGED <<impl, source, compiled>>

\* the caller goes on with the schema that child returned
Descend ==
  /\ call.op = "child"
  /\ result.t = "schema"
  /\ compiled' = result
  /\ call' = Idle
  /\ value' = Undefined
  /\ result' = Undefined
  /\ UNCHANGED <<impl, source>>

CallIsScalar ==
  /\ Ready
  /\ value' = Undefined
  /\ call' = [op |-> "isScalar"]
  /\ result' = Bool(IsScalar(compiled.heap, compiled.node))
  /\ UNCHANGED <<impl, source, compiled>>

CallIsArray ==
  /\ Ready
  /\ value' = Undefined
  /\ call' = [op |-> "isArray"]
  /\ result' = IsArray(compiled.heap, compiled.node, {})
  /\ UNCHANGED <<impl, source, compiled>>

CallIsObject ==
  /\ Ready
  /\ value' = Undefined
  /\ call' = [op |-> "isObject"]
  /\ result' = IsObject(compiled.heap, compiled.node, {})
  /\ UNCHANGED <<impl, source, compiled>>

\* the let/ref engine works on the document itself
LRReady == impl = "letref" /\ call.op \in {"none", "idle"}

CallIsSchema(collect) ==
  /\ LRReady
  /\ value' = Undefined
  /\ call' = [op |-> "isSchema", collect |-> collect]
  /\ result' = IsSchema(source, collect)
  /\ UNCHANGED <<impl, source, compiled>>

CallMatchesSchema(v) ==
  /\ LRReady
  /\ value' = v
  /\ call' = [op |-> "matchesSchema"]
  /\ result' = MatchesSchema(source, v)
  /\ UNCHANGED <<impl, source, compiled>>

CallLRZeroValue ==
  /\ LRReady
  /\ value' = Undefined
  /\ call' = [op |-> "zeroValue"]
  /\ result' = LRZeroValue(source)
  /\ UNCHANGED <<impl, source, compiled>>

Next ==
  \/ Compile
  \/ \E v \in Values, x \in BOOLEAN : CallValidate(v, x)
  \/ \E v \in Values, o \in RestrictOptions : CallRestrict(v, o)
  \/ CallZeroValue
  \/ CallHasFixedShape
  \/ CallIsRecursive
  \/ \E p \in Paths : CallChild(p)
  \/ \E p \in PathLists : CallAtPath(p)
  \/ CallToSource
  \/ Descend
  \/ CallIsScalar
  \/ CallIsArray
  \/ CallIsObject
  \/ \E c \in BOOLEAN : CallIsSchema(c)
  \/ \E v \in Values \cup Docs : CallMatchesSchema(v)
  \/ CallLRZeroValue
  \/ Return

Spec == Init /\ [][Next]_vars

-----------------------------------------------------------------------------
(* Properties.  A state after a call holds the schema the call was made on *)
(* (compiled, or the document in source), the argument (value) and the     *)
(* outcome (result), so a property of an operation is a predicate on the   *)
(* states that follow its calls.                                           *)

\* an outcome that is a value: neither undefined nor a throw
IsValue(r) == r.t \notin {"undefined", "throw"}

\* validate(v) with the default options returns the empty list
Conforms(v) ==
  Validate(compiled.heap, compiled.node, v, <<>>, FALSE, {}) = Mismatches(<<>>)

\* the fixpoints that occur in a node, not looking through them
RECURSIVE FixpointsIn(_)
FixpointsIn(n) ==
  CASE n.k = "oneof" -> UNION {FixpointsIn(n.subtypes[i]) : i \in DOMAIN n.subtypes}
    [] n.k = "array" -> FixpointsIn(n.elementType)
    [] n.k = "dictionary" -> FixpointsIn(n.valueType)
    [] n.k = "object" -> UNION {FixpointsIn(n.entries[k]) : k \in DOMAIN n.entries}
    [] n.k = "fixpoint" -> {n}
    [] OTHER -> {}

\* the fixpoints reachable from a set of fixpoints through their bodies
RECURSIVE FixpointsReached(_, _)
FixpointsReached(h, seen) ==
  LET next == seen \cup UNION {FixpointsIn(h[f]) : f \in seen}
  IN  IF next = seen THEN seen ELSE FixpointsReached(h, next)

\* no label is reachable from its own body
NonRecursiveGraph(h) ==
  \A f \in DOMAIN h : f \notin FixpointsReached(h, FixpointsIn(h[f]))

\* the labels a let/ref schema type refers to
RECURSIVE RefsIn(_)
RefsIn(schema) ==
  CASE schema.t = "array" /\ schema.e # <<>> ->
         IF schema.e[1] = Str("ref")
         THEN {schema.e[i].s : i \in {j \in 2..Len(schema.e) : schema.e[j].t = "string"}}
         ELSE IF schema.e[1] = Str("enum") THEN {}
         ELSE UNION {RefsIn(schema.e[i]) : i \in 2..Len(schema.e)}
    [] schema.t = "object" -> UNION {RefsIn(schema.m[k]) : k \in DOMAIN schema.m}
    [] OTHER -> {}

RECURSIVE LabelsReached(_, _)
LabelsReached(refs, seen) ==
  LET next == seen \cup UNION {RefsIn(refs[a]) : a \in seen \cap DOMAIN refs}
  IN  IF next = seen THEN seen ELSE LabelsReached(refs, next)

\* no let label is reachable from its own body
NonRecursiveDoc(doc) ==
  \A a \in DOMAIN LetOf(doc) :
    a \notin LabelsReached(LetOf(doc), RefsIn(LetOf(doc)[a]))

\* C1: whenever validate(v) with the default options returns the empty list,
\* restrict(v, {}) returns a value deep-equal to v.  The code breaks it: a
\* oneof hands back the first alternative whose restrict is not undefined,
\* and an array or object alternative prunes what it does not know instead of
\* declining.
C1_ConformingValueRestrictsToItself ==
  (/\ impl = "compiled"
   /\ call.op = "validate"
   /\ ~call.allowExtraFields
   /\ result = Mismatches(<<>>))
    => Restrict(compiled.heap, compiled.node, value, NoOptions, {}) = value

\* C2: whenever restrict(v, opts) returns a value, that value validates.  The
\* code breaks it: the integer type coerces the number NaN to Math.round(NaN),
\* which is NaN and no integer.
C2_RestrictedValueValidates ==
  (impl = "compiled" /\ call.op = "restrict" /\ IsValue(result))
    => Conforms(result)

\* C3: restrict is idempotent: whenever r = restrict(v, opts) is not
\* undefined, restrict(r, {}) is deep-equal to r.  The code breaks it through
\* the NaN that C2's coercion lets out: restrict(NaN, {}) is undefined.
C3_RestrictIsIdempotent ==
  (impl = "compiled" /\ call.op = "restrict" /\ IsValue(result))
    => Restrict(compiled.heap, compiled.node, result, NoOptions, {}) = result

\* C4: the zero value of a schema in which no label is reachable from its own
\* body is computed without a throw and validates against the schema, in the
\* compiled engine and in the let/ref engine.  The code breaks it in both:
\* a fixpoint node throws from zeroValue wherever it stands, and typeZeroValue
\* never takes a let body out of its history set.
C4_ZeroValueOfNonRecursiveSchemaValidates ==
  /\ (/\ impl = "compiled"
      /\ call.op = "zeroValue"
      /\ NonRecursiveGraph(compiled.heap))
       => (IsValue(result) /\ Conforms(result))
  /\ (/\ impl = "letref"
      /\ call.op = "zeroValue"
      /\ IsSchema(source, FALSE).ok
      /\ NonRecursiveDoc(source))
       => (IsValue(result) /\ MatcherErrors(source, result) = Errors(<<>>))

\* The walk of Schema.zeroValue over the graph, keeping the nodes whose
\* expansion has begun and not ended: does it come to a fixpoint whose body,
\* or which itself, is among them?
RECURSIVE ReentersInProgress(_, _, _)
ReentersInProgress(h, n, stack) ==
  CASE n.k = "oneof" -> ReentersInProgress(h, n.subtypes[1], stack \cup {n})
    [] n.k = "object" ->
         \E k \in DOMAIN n.entries :
           ReentersInProgress(h, n.entries[k], stack \cup {n})
    [] n.k = "fixpoint" ->
         \/ n \in stack
         \/ h[n] \in stack
         \/ ReentersInProgress(h, h[n], stack \cup {n})
    [] OTHER -> FALSE

\* The walk of typeZeroValue over a document, keeping the labels whose
\* expansion has begun and not ended: does it come to a ref to one of them?
RECURSIVE RefReentersInProgress(_, _, _)
RefReentersInProgress(schema, refs, labels) ==
  CASE schema.t = "array" /\ Len(schema.e) >= 2 ->
         CASE schema.e[1] = Str("tuple") ->
                \E i \in 2..Len(schema.e) :
                  RefReentersInProgress(schema.e[i], refs, labels)
           [] schema.e[1] = Str("array") ->
                \E i \in 2..(Len(schema.e) - 1) :
                  RefReentersInProgress(schema.e[i], refs, labels)
           [] schema.e[1] = Str("oneof") ->
                RefReentersInProgress(schema.e[2], refs, labels)
           [] schema.e[1] = Str("ref") ->
                /\ schema.e[2].t = "string"
                /\ \/ schema.e[2].s \in labels
                   \/ /\ schema.e[2].s \in DOMAIN refs
                      /\ RefReentersInProgress(refs[schema.e[2].s], refs,
                                               labels \cup {schema.e[2].s})
           [] OTHER -> FALSE
    [] schema.t = "object" ->
         \E k \in DOMAIN schema.m :
           /\ ~(/\ schema.m[k].t = "array"
                /\ schema.m[k].e # <<>>
                /\ schema.m[k].e[1] = Str("optional"))
           /\ RefReentersInProgress(schema.m[k], refs, labels)
    [] OTHER -> FALSE

\* C5: zeroValue throws its recursion error only when its walk re-enters a
\* label whose expansion is still in progress; a label that was expanded and
\* left earlier in the call does not make it throw.  The code breaks it in
\* both engines: a fixpoint node throws wherever zeroValue meets it, and
\* typeZeroValue keeps every let body it has left in its history set.
C5_ZeroValueThrowsOnlyOnReentry ==
  /\ (/\ impl = "compiled"
      /\ call.op = "zeroValue"
      /\ IsThrow(result))
       => ReentersInProgress(compiled.heap, compiled.node, {})
  /\ (/\ impl = "letref"
      /\ call.op = "zeroValue"
      /\ IsThrow(result))
       => RefReentersInProgress(SchemaOf(source), LetOf(source), {})

\* Forever in the compiled engine: an object type with a field that refers
\* back to the object type itself
IsForever(h, n) ==
  /\ n.k = "object"
  /\ \E k \in DOMAIN n.entries :
       n.entries[k].k = "fixpoint" /\ h[n.entries[k]] = n

\* Forever in the let/ref engine: the schema is a ref to a label whose body
\* is an object with a required field that is a ref to the same label
IsForeverDoc(doc) ==
  \E a \in DOMAIN LetOf(doc) :
    /\ SchemaOf(doc) = Tag("ref", <<Str(a)>>)
    /\ LetOf(doc)[a].t = "object"
    /\ \E k \in DOMAIN LetOf(doc)[a].m :
         LetOf(doc)[a].m[k] = Tag("ref", <<Str(a)>>)

IsRecursionError(r) == IsThrow(r) /\ r.error = "RecursionError"

\* C6: on the schema Forever = {loop: Forever}, zeroValue throws and restrict
\* with fillEmpty or fillZero throws a RecursionError; and no call of
\* validate, of matchesSchema or of restrict without a fill option, on any
\* schema and value, throws a RecursionError.
C6_RecursionErrorOnlyFromZeroValueAndFill ==
  /\ (/\ impl = "compiled"
      /\ call.op = "zeroValue"
      /\ IsForever(compiled.heap, compiled.node))
       => IsRecursionError(result)
  /\ (/\ impl = "compiled"
      /\ call.op = "restrict"
      /\ call.options.fillEmpty \/ call.options.fillZero
      /\ IsForever(compiled.heap, compiled.node))
       => IsRecursionError(result)
  /\ (/\ impl = "letref"
      /\ call.op = "zeroValue"
      /\ IsForeverDoc(source))
       => IsThrow(result)
  /\ (\/ call.op \in {"validate", "matchesSchema"}
      \/ /\ call.op = "restrict"
         /\ ~call.options.fillEmpty
         /\ ~call.options.fillZero)
       => ~IsRecursionError(result)

\* C6 witness: restrict with a fill option was called on Forever and threw a
\* RecursionError
C6_Witness ==
  /\ impl = "compiled"
  /\ call.op = "restrict"
  /\ call.options.fillEmpty
  /\ ~call.options.fillZero
  /\ IsForever(compiled.heap, compiled.node)
  /\ IsRecursionError(result)

\* C7: for a document isSchema accepts, the matcher ends and answers with a
\* boolean on every value.  The code breaks it: isSchema accepts a label
\* whose body is a ref to itself, or a oneof with such a ref, and the matcher
\* follows the ref on the same value until the stack overflows.
C7_MatcherTerminatesOnAcceptedDocuments ==
  (/\ impl = "letref"
   /\ call.op = "matchesSchema"
   /\ IsSchema(source, FALSE).ok)
    => ~IsThrow(result)

\* C8: on a schema in which no label is reachable from its own body, restrict
\* with fillZero returns a value for every input, never undefined.  The code
\* breaks it where a label is used from another label's body: the fixpoint
\* node there throws a RecursionError for any fill option (the cause of C5).
C8_FillZeroIsTotalOnNonRecursiveSchemas ==
  (/\ impl = "compiled"
   /\ call.op = "restrict"
   /\ call.options = [fillEmpty |-> FALSE, fillZero |-> TRUE, coerce |-> FALSE]
   /\ NonRecursiveGraph(compiled.heap))
    => IsValue(result)

\* C9: a reference (fixpoint) node answers validate, restrict without a fill
\* option, child, isScalar, isArray, isObject and hasFixedShape as the node it
\* resolves to does.  The code breaks it: FixpointType does not override
\* isScalar, so a reference to a scalar type answers false.
C9_ReferenceAnswersAsItsTarget ==
  (/\ impl = "compiled"
   /\ compiled.t = "schema"
   /\ compiled.node.k = "fixpoint")
    => LET h == compiled.heap
           target == compiled.heap[compiled.node]
       IN  /\ call.op = "validate"
                => result = Validate(h, target, value, <<>>,
                                     call.allowExtraFields, {})
           /\ (call.op = "restrict" /\ ~FillRequested(call.options))
                => result = Restrict(h, target, value, call.options, {})
           /\ call.op = "child" => result = Child(h, target, call.path, {})
           /\ call.op = "isScalar" => result = Bool(IsScalar(h, target))
           /\ call.op = "isArray" => result = IsArray(h, target, {})
           /\ call.op = "isObject" => result = IsObject(h, target, {})
           /\ call.op = "hasFixedShape" => result = HasFixedShape(h, target, {})

\* the nodes a node refers to; a fixpoint refers to its body
Successors(h, n) ==
  CASE n.k = "oneof" -> {n.subtypes[i] : i \in DOMAIN n.subtypes}
    [] n.k = "array" -> {n.elementType}
    [] n.k = "dictionary" -> {n.valueType}
    [] n.k = "object" -> {n.entries[k] : k \in DOMAIN n.entries}
    [] n.k = "fixpoint" -> {h[n]}
    [] OTHER -> {}

RECURSIVE NodesReached(_, _)
NodesReached(h, seen) ==
  LET next == seen \cup UNION {Successors(h, m) : m \in seen}
  IN  IF next = seen THEN seen ELSE NodesReached(h, next)

Reachable(h, n) == NodesReached(h, {n})

\* the shape categories (scalar, array, object) a node's values fall in
RECURSIVE Categories(_, _, _)
Categories(h, n, seen) ==
  CASE n.k \in ScalarKinds \cup {"enum"} -> {"scalar"}
    [] n.k = "array" -> {"array"}
    [] n.k \in {"object", "dictionary"} -> {"object"}
    [] n.k = "oneof" ->
         UNION {Categories(h, n.subtypes[i], seen) : i \in DOMAIN n.subtypes}
    [] n.k = "fixpoint" ->
         IF n \in seen THEN {} ELSE Categories(h, h[n], seen \cup {n})
    [] OTHER -> {}

NoAnyReachable(h, n) == \A m \in Reachable(h, n) : m.k # "any"

\* no reachable oneof has alternatives of different shape categories
NoOneOfMixesCategories(h, n) ==
  \A m \in Reachable(h, n) :
    m.k = "oneof" => Cardinality(Categories(h, m, {})) <= 1

\* every alternative of every reachable oneof is itself a scalar type or an
\* enum
EveryAlternativeIsScalar(h, n) ==
  \A m \in Reachable(h, n) :
    m.k = "oneof" =>
      \A i \in DOMAIN m.subtypes : m.subtypes[i].k \in ScalarKinds \cup {"enum"}

\* a oneof all of whose alternatives are arrays, or all object types
IsUniformCompositeOneOf(h, m) ==
  /\ m.k = "oneof"
  /\ Categories(h, m, {}) \in {{"array"}, {"object"}}

SomeAlternativeIsComposite(h, n) ==
  \E m \in Reachable(h, n) :
    /\ m.k = "oneof"
    /\ \E i \in DOMAIN m.subtypes :
         m.subtypes[i].k \in {"array", "object", "dictionary"}

-----------------------------------------------------------------------------
(* Path lookup *)

IsAmbiguousPathError(r) == IsThrow(r) /\ r.error = "AmbiguousPathError"

\* the node a chain of references ends in (a chain that closes on itself ends
\* nowhere: the reference itself is returned)
RECURSIVE Resolve(_, _, _)
Resolve(h, n, seen) ==
  IF n.k = "fixpoint" /\ n \notin seen THEN Resolve(h, h[n], seen \cup {n})
  ELSE n

\* child applied step by step from schema s, stopping at the first step that
\* yields no schema
RECURSIVE StepByStep(_, _)
StepByStep(s, path) ==
  IF path = <<>> \/ s = Undefined \/ IsThrow(s) THEN s
  ELSE StepByStep(Child(s.heap, s.node, Head(path), {}), Tail(path))

\* C11: on a schema in which no label is reachable from its own body and
\* whose hasFixedShape() is true, atPath(p) returns a schema or undefined for
\* every path p; and whenever atPath throws AmbiguousPathError, the error
\* carries the steps walked so far and the last of them was applied to an any
\* node or to a oneof node whose hasFixedShape() is false.
C11_AmbiguousPathOnlyAtShapelessNodes ==
  (impl = "compiled" /\ call.op = "atPath")
    => /\ (/\ NonRecursiveGraph(compiled.heap)
           /\ HasFixedShape(compiled.heap, compiled.node, {}) = Bool(TRUE))
            => (result = Undefined \/ result.t = "schema")
       /\ IsAmbiguousPathError(result)
            => LET k == Len(result.path)
                   at == StepByStep(compiled, SubSeq(call.path, 1, k - 1))
               IN  /\ k \in 1..Len(call.path)
                   /\ result.path = SubSeq(call.path, 1, k)
                   /\ at.t = "schema"
                   /\ LET n == Resolve(at.heap, at.node, {})
                      IN  \/ n.k = "any"
                          \/ /\ n.k = "oneof"
                             /\ HasFixedShape(at.heap, n, {}) = Bool(FALSE)

\* a two-step lookup in a fixed-shape schema with labels found a schema
C11_Witness ==
  /\ impl = "compiled"
  /\ call.op = "atPath"
  /\ Len(call.path) = 2
  /\ DOMAIN compiled.heap # {}
  /\ NonRecursiveGraph(compiled.heap)
  /\ HasFixedShape(compiled.heap, compiled.node, {}) = Bool(TRUE)
  /\ result.t = "schema"

\* C12: for every node kind, scalars included, atPath(p) is what applying
\* child step by step from the schema gives, undefined as soon as a step has
\* no child; in particular atPath([]) is the schema itself.  The code breaks
\* it: ScalarType overrides atPath to answer undefined for every path, the
\* empty one included.
C12_AtPathIsChildStepByStep ==
  (impl = "compiled" /\ call.op = "atPath" /\ ~IsThrow(result))
    => /\ result = StepByStep(compiled, call.path)
       /\ call.path = <<>> => result = compiled

-----------------------------------------------------------------------------
(* Decompilation *)

\* the mismatches of a validate outcome without their type fields, which
\* refer to the nodes of one particular graph
SansType(r) ==
  IF r.t = "mismatches"
  THEN [i \in DOMAIN r.list |-> <<r.list[i].path, r.list[i].value>>]
  ELSE r

\* C13: for a compiled schema in which no label is reachable from its own
\* body, toSource() returns a source, compileSchema accepts it, and the
\* schema compiled from it validates and restricts every value as the
\* original does, whatever the options.  The code breaks it: an entry
\* compiled from the escaped key "$$a" is written back as "$a", which
\* compiles as a label binding, and a label is written back as its body, on
\* which the fill options no longer throw.
C13_RecompiledSourceBehavesTheSame ==
  (/\ impl = "compiled"
   /\ call.op \in {"validate", "restrict"}
   /\ NonRecursiveGraph(compiled.heap))
    => LET src == ToSource(compiled.heap, compiled.node, {})
           again == IF IsThrow(src) THEN src
                    ELSE CompileSchema(src, <<>>, <<>>)
       IN  /\ again.t = "schema"
           /\ call.op = "validate"
                => SansType(result)
                     = SansType(Validate(again.heap, again.node, value, <<>>,
                                         call.allowExtraFields, {}))
           /\ call.op = "restrict"
                => result = Restrict(again.heap, again.node, value,
                                     call.options, {})

\* the references reachable from node n whose label is reachable from its
\* own body
RecursiveLabelsReached(h, n) ==
  {f \in Reachable(h, n) :
     f.k = "fixpoint" /\ f \in FixpointsReached(h, FixpointsIn(h[f]))}

\* value x occurs in value v
RECURSIVE Occurs(_, _)
Occurs(x, v) ==
  \/ v = x
  \/ v.t = "array" /\ \E i \in DOMAIN v.e : Occurs(x, v.e[i])
  \/ v.t = "object" /\ \E k \in DOMAIN v.m : Occurs(x, v.m[k])

\* C14: toSource() on a schema that contains a reference to a recursive label
\* returns a finite source that holds the bare label string where the
\* reference stands.  The code breaks it: after compilation every fixpoint
\* has its schema set, so toSource follows the reference into the label's
\* body again and again until the stack overflows.
C14_RecursiveReferenceDecompilesToLabel ==
  (/\ impl = "compiled"
   /\ call.op = "toSource"
   /\ RecursiveLabelsReached(compiled.heap, compiled.node) # {})
    => /\ IsValue(result)
       /\ \A f \in RecursiveLabelsReached(compiled.heap, compiled.node) :
            Occurs(Str(f.label), result)

-----------------------------------------------------------------------------
(* Object types: undeclared keys, restricted keys, filled keys *)

\* a validate call on an object type with an object value came back with a
\* list of mismatches
ObjectValidated ==
  /\ impl = "compiled"
  /\ call.op = "validate"
  /\ compiled.node.k = "object"
  /\ value.t = "object"
  /\ result.t = "mismatches"

C16_RestrictAddsNoKey ==
  (/\ impl = "compiled"
   /\ call.op = "restrict"
   /\ ~FillRequested(call.options)
   /\ compiled.node.k = "object"
   /\ result.t = "object")
    => /\ value.t = "object"
       /\ DOMAIN result.m
            \subseteq (DOMAIN compiled.node.entries \cap DOMAIN value.m)

\* every mapping of value r that stands where node n has an object type holds
\* every key the object type declares, at every depth (for a oneof: as the
\* output of one of its alternatives)
RECURSIVE EveryDeclaredKeyFilled(_, _, _)
EveryDeclaredKeyFilled(h, n, r) ==
  CASE n.k = "object" ->
         r.t = "object"
           => /\ DOMAIN n.entries \subseteq DOMAIN r.m
              /\ \A k \in DOMAIN n.entries :
                   EveryDeclaredKeyFilled(h, n.entries[k], r.m[k])
    [] n.k = "array" ->
         r.t = "array"
           => \A i \in DOMAIN r.e : EveryDeclaredKeyFilled(h, n.elementType, r.e[i])
    [] n.k = "dictionary" ->
         r.t = "object"
           => \A k \in DOMAIN r.m : EveryDeclaredKeyFilled(h, n.valueType, r.m[k])
    [] n.k = "oneof" ->
         \E i \in DOMAIN n.subtypes : EveryDeclaredKeyFilled(h, n.subtypes[i], r)
    [] n.k = "fixpoint" -> EveryDeclaredKeyFilled(h, h[n], r)
    [] OTHER -> TRUE

\* C17: with fillZero: true on a schema in which no label is reachable from
\* its own body, every mapping in the output of restrict that was produced
\* for an object type holds every key the type declares, at every depth,
\* object types that are alternatives of a oneof included.  The code breaks
\* it: OneOfType.restrict first asks every alternative without any option,
\* and an object alternative answers an object value with its pruned copy,
\* which is returned unfilled.
C17_FillZeroFillsEveryDeclaredKey ==
  (/\ impl = "compiled"
   /\ call.op = "restrict"
   /\ call.options.fillZero
   /\ NonRecursiveGraph(compiled.heap)
   /\ IsValue(result))
    => EveryDeclaredKeyFilled(compiled.heap, compiled.node, result)

-----------------------------------------------------------------------------
(* The options of restrict *)

\* C18: fillZero implies fillEmpty: a restrict call with fillZero set has the
\* same outcome (value, undefined or exception) as the call with the same
\* value and coerce setting and the other setting of fillEmpty.
C18_FillZeroImpliesFillEmpty ==
  (impl = "compiled" /\ call.op = "restrict" /\ call.options.fillZero)
    => result = Restrict(compiled.heap, compiled.node, value,
                         [call.options EXCEPT !.fillEmpty = ~@], {})

\* fillZero alone made an array type answer a value that is no array with the
\* empty array, which without a fill option is undefined
C18_Witness ==
  /\ impl = "compiled"
  /\ call.op = "restrict"
  /\ call.options.fillZero
  /\ ~call.options.fillEmpty
  /\ compiled.node.k = "array"
  /\ value.t # "array"
  /\ result = Arr(<<>>)
  /\ Restrict(compiled.heap, compiled.node, value,
              [call.options EXCEPT !.fillZero = FALSE], {}) = Undefined

\* C19: with coerce: true the boolean type converts null and numbers (null
\* and 0 to false) and does not convert a sequence, a mapping, a binary or a
\* date: for those the result is undefined, or false when fillZero is set.
\* The code breaks it: the conversion is !!value for every value that is no
\* boolean, so an array, an object, a binary and a date become true.
C19_BooleanCoercionConvertsListedValuesOnly ==
  (/\ impl = "compiled"
   /\ call.op = "restrict"
   /\ call.options.coerce
   /\ compiled.node.k = "boolean")
    => /\ value \in {Null, Whole(0)} => result = Bool(FALSE)
       /\ value.t = "number" => result.t = "boolean"
       /\ value.t \in {"array", "object", "binary", "date"}
            => result = (IF call.options.fillZero THEN Bool(FALSE)
                         ELSE Undefined)

\* C20: with coerce: true the null type converts false, 0 and the string
\* "null" to null and no other value that is not null: those give undefined,
\* or null when fillZero is set.  The code breaks it: the conversion is
\* taken for every falsy value, so the empty string and NaN become null and
\* the string "null", which is truthy, does not.
C20_NullCoercionConvertsListedValuesOnly ==
  (/\ impl = "compiled"
   /\ call.op = "restrict"
   /\ call.options.coerce
   /\ compiled.node.k = "null"
   /\ value # Null)
    => IF value \in {Bool(FALSE), Whole(0), Str("null")}
       THEN result = Null
       ELSE result = (IF call.options.fillZero THEN Null ELSE Undefined)

-----------------------------------------------------------------------------
(* Compilation *)

\* the part of a source that a path of keys and indexes leads to
RECURSIVE SourceAt(_, _)
SourceAt(src, path) ==
  IF path = <<>> THEN src
  ELSE LET step == Head(path)
       IN  IF src.t = "object" /\ step.t = "string" /\ step.s \in DOMAIN src.m
           THEN SourceAt(src.m[step.s], Tail(path))
           ELSE IF src.t = "array" /\ IsInteger(step)
                   /\ (step.h \div 2) + 1 \in DOMAIN src.e
           THEN SourceAt(src.e[(step.h \div 2) + 1], Tail(path))
           ELSE Undefined

\* every label string that stands where a type is expected names a "$" key
\* of the object that contains it or of an enclosing object
RECURSIVE LabelsInScope(_, _)
LabelsInScope(src, labels) ==
  CASE src.t = "object" ->
         LET inner == labels
               \cup {k \in DOMAIN src.m : StartsWith(k, "$") /\ ~StartsWith(k, "$$")}
         IN  \A k \in DOMAIN src.m : LabelsInScope(src.m[k], inner)
    [] src.t = "array" /\ Len(src.e) = 1 -> LabelsInScope(src.e[1], labels)
    [] src.t = "array" /\ Len(src.e) > 1
         /\ src.e[1] \in {Str("oneof"), Str("dictionary")} ->
         \A i \in 2..Len(src.e) : LabelsInScope(src.e[i], labels)
    [] src.t = "string" /\ StartsWith(src.s, "$") /\ ~StartsWith(src.s, "$$") ->
         src.s \in labels
    [] OTHER -> TRUE

\* C21: compileSchema(source) either returns a schema or throws a
\* SchemaCompileError that carries the path of a node of the source; a
\* returned graph has a target for every reference that occurs in it; and a
\* source in which some label string is used outside the object that defines
\* it and the objects nested in that object is never compiled to a schema.
C21_CompileResolvesEveryLabelOrThrows ==
  (impl = "compiled" /\ call.op = "compileSchema")
    => /\ \/ compiled.t = "schema"
          \/ /\ IsThrow(compiled)
             /\ compiled.error = "SchemaCompileError"
             /\ SourceAt(source, compiled.path) # Undefined
       /\ compiled.t = "schema"
            => /\ \A n \in Reachable(compiled.heap, compiled.node) :
                    n.k = "fixpoint" => n \in DOMAIN compiled.heap
               /\ LabelsInScope(source, {})
       /\ ~LabelsInScope(source, {}) => IsThrow(compiled)

\* a label used in a sibling subtree of the object that defines it was
\* refused with the path of the use
C21_Witness ==
  /\ impl = "compiled"
  /\ call.op = "compileSchema"
  /\ source.t = "object"
  /\ DOMAIN source.m = {"a", "b"}
  /\ source.m["a"].t = "object"
  /\ "$A" \in DOMAIN source.m["a"].m
  /\ source.m["b"] = Str("$A")
  /\ compiled = SchemaCompileError("label not in scope", <<Str("b")>>)

-----------------------------------------------------------------------------
(* The checks of schema documents *)

IsPrefix(p, q) == Len(p) <= Len(q) /\ SubSeq(q, 1, Len(p)) = p

\* every key of an object type and every element of a tuple, array or oneof
\* type that is no schema type has a diagnostic located at or below it, in
\* schema type `schema` at `location` and in the types nested in it
RECURSIVE EveryInvalidPartReported(_, _, _, _)
EveryInvalidPartReported(schema, refs, location, errors) ==
  LET Reported(loc) == \E i \in DOMAIN errors : IsPrefix(loc, errors[i].location)
      Part(part, loc) ==
        /\ ~IsSchemaType(part, refs, loc, FALSE).ok => Reported(loc)
        /\ EveryInvalidPartReported(part, refs, loc, errors)
  IN  CASE schema.t = "object" ->
             \A k \in DOMAIN schema.m :
               LET v == schema.m[k]
                   loc == location \o <<Str(k)>>
               IN  IF v.t = "array" /\ Len(v.e) > 0 /\ v.e[1] = Str("optional")
                   THEN (IF Len(v.e) = 2 THEN Part(v.e[2], loc)
                         ELSE Reported(loc))
                   ELSE Part(v, loc)
        [] schema.t = "array" /\ Len(schema.e) >= 2
             /\ schema.e[1] \in {Str("tuple"), Str("array"), Str("oneof")} ->
             \A i \in 2..Len(schema.e) :
               Part(schema.e[i], location \o <<Whole(i - 1)>>)
        [] schema.t = "array" /\ Len(schema.e) = 2
             /\ schema.e[1] = Str("dictionary") ->
             Part(schema.e[2], location \o <<Whole(1)>>)
        [] OTHER -> TRUE

\* C22: isSchema(doc, errors) with an empty errors list returns false iff it
\* appended a diagnostic, returns what isSchema(doc) returns without a list,
\* and does not stop at the first failure: every invalid object key and
\* every invalid tuple, array or oneof element, in the let block and in the
\* schema, has a diagnostic of its own located at its path.
C22_IsSchemaCollectsEveryDiagnostic ==
  (impl = "letref" /\ call.op = "isSchema" /\ call.collect)
    => /\ ~result.ok <=> result.errors # <<>>
       /\ result.ok = IsSchema(source, FALSE).ok
       /\ source.t = "object"
            => LET refs == LetOf(source)
               IN  /\ \A k \in DOMAIN refs :
                        /\ ~IsSchemaType(refs[k], refs, <<Str("let"), Str(k)>>,
                                         FALSE).ok
                             => \E i \in DOMAIN result.errors :
                                  IsPrefix(<<Str("let"), Str(k)>>,
                                           result.errors[i].location)
                        /\ EveryInvalidPartReported(
                             refs[k], refs, <<Str("let"), Str(k)>>,
                             result.errors)
                   /\ "schema" \in DOMAIN source.m
                        => EveryInvalidPartReported(
                             source.m["schema"], refs, <<Str("schema")>>,
                             result.errors)

\* a document with two invalid object keys got two diagnostics
C22_Witness ==
  /\ impl = "letref"
  /\ call.op = "isSchema"
  /\ call.collect
  /\ source.t = "object"
  /\ DOMAIN source.m = {"schema"}
  /\ source.m["schema"].t = "object"
  /\ ~result.ok
  /\ Len(result.errors) = 2
  /\ result.errors[1].location = <<Str("schema"), Str("a")>>
  /\ result.errors[2].location = <<Str("schema"), Str("b")>>

-----------------------------------------------------------------------------
(* The matcher of the let/ref engine *)

\* the document of the state is accepted by isSchema
Accepted == impl = "letref" /\ IsSchema(source, FALSE).ok

\* a matcher call on an accepted document returned
Matched == Accepted /\ call.op = "matchesSchema" /\ result.t = "matched"

MatchesType(t, v) ==
  ValidateSchemaType(t, LetOf(source), <<>>, v, <<>>, {}) = Errors(<<>>)

\* C24: an array type with N > 1 argument types matches a sequence iff it has
\* at least N - 1 elements, each of the first N - 1 elements matches the
\* argument at its position and every later element matches the last
\* argument; with one argument it matches a sequence of any length, the
\* empty one included, whose elements all match the argument.
C24_ArrayMatchesPrefixThenSuffix ==
  (/\ Matched
   /\ SchemaOf(source).t = "array"
   /\ SchemaOf(source).e[1] = Str("array"))
    => LET args == Tail(SchemaOf(source).e)
           N == Len(args)
       IN  result.b
             <=> /\ value.t = "array"
                 /\ IF N = 1
                    THEN \A j \in DOMAIN value.e : MatchesType(args[1], value.e[j])
                    ELSE /\ Len(value.e) >= N - 1
                         /\ \A j \in DOMAIN value.e :
                              /\ j <= N - 1 => MatchesType(args[j], value.e[j])
                              /\ j > N - 1 => MatchesType(args[N], value.e[j])

\* an array type with a prefix of two types matched a sequence of four
C24_Witness ==
  /\ Matched
  /\ SchemaOf(source).t = "array"
  /\ SchemaOf(source).e[1] = Str("array")
  /\ Len(SchemaOf(source).e) = 4
  /\ value.t = "array"
  /\ Len(value.e) = 4
  /\ result.b

-----------------------------------------------------------------------------
(* Zero values of the let/ref engine *)

\* zeroValue of an accepted document whose schema is an array type returned
ArrayZeroed ==
  /\ Accepted
  /\ call.op = "zeroValue"
  /\ SchemaOf(source).t = "array"
  /\ SchemaOf(source).e[1] = Str("array")
  /\ IsValue(result)

\* C25: the zero value of every array type is the empty sequence, whatever
\* the number of its argument types.
C25_ArrayZeroValueIsEmpty == ArrayZeroed => result = Arr(<<>>)

\* what typeZeroValue returns for an array type: the zero values of its
\* arguments but the last, a sequence the type matches
ArrayZeroValueIsItsPrefix ==
  ArrayZeroed
    => LET args == Tail(SchemaOf(source).e)
           N == Len(args)
       IN  /\ result.t = "array"
           /\ Len(result.e) = N - 1
           /\ \A i \in 1..(N - 1) :
                result.e[i]
                  = TypeZeroValue(args[i], <<Str("schema"), Whole(i)>>,
                                  LetOf(source), {}).r
           /\ MatchesSchema(source, result).b

-----------------------------------------------------------------------------
(* The language describes itself *)

\* the matcher of spartanSchemaSchema was applied to a value
SelfMatched ==
  /\ impl = "letref"
  /\ source = spartanSchemaSchema
  /\ call.op = "matchesSchema"

-----------------------------------------------------------------------------
(* Calls leave the schema alone *)

\* the operations of a compiled schema that the frame is about
FrameOps ==
  {"validate", "restrict", "zeroValue", "atPath", "toSource", "isRecursive",
   "hasFixedShape"}

\* what the operation named by c answers on graph g for value v, computed
\* from these arguments alone
OutcomeOf(g, c, v) ==
  CASE c.op = "validate" ->
         Validate(g.heap, g.node, v, <<>>, c.allowExtraFields, {})
    [] c.op = "restrict" -> Restrict(g.heap, g.node, v, c.options, {})
    [] c.op = "zeroValue" -> ZeroValue(g.heap, g.node)
    [] c.op = "atPath" -> AtPath(g.heap, g.node, c.path)
    [] c.op = "toSource" -> ToSource(g.heap, g.node, {})
    [] c.op = "isRecursive" -> Bool(IsRecursive(g.heap, g.node))
    [] c.op = "hasFixedShape" -> HasFixedShape(g.heap, g.node, {})

-----------------------------------------------------------------------------
(* The order in which a oneof type restricts *)

\* restrict was called on a schema whose root is a oneof type
OneOfRestricted ==
  /\ impl = "compiled"
  /\ compiled.t = "schema"
  /\ compiled.node.k = "oneof"
  /\ call.op = "restrict"

\* the least index at which the sequence rs is not undefined
FirstDefinedAt(rs) ==
  CHOOSE i \in DOMAIN rs :
    rs[i] # Undefined /\ \A j \in 1..(i - 1) : rs[j] = Undefined

\* C28: restrict of a oneof type answers with the non-coercing restrict of
\* the first alternative for which that is defined; if there is none and
\* coerce is set, with the first defined coercing restrict; if there is none
\* either and fillZero is set, with the zero value of the first alternative.
\* A value that an alternative accepts unchanged is thus never answered with
\* a coerced value.
C28_OneOfRestrictsInOrder ==
  OneOfRestricted
    => LET h == compiled.heap
           subs == compiled.node.subtypes
           plain == [i \in DOMAIN subs |->
                       Restrict(h, subs[i], value, NoOptions, {})]
           coerced == [i \in DOMAIN subs |->
                         Restrict(h, subs[i], value, CoerceOnly, {})]
           nonePlain == \A i \in DOMAIN subs : plain[i] = Undefined
           noneCoerced ==
             ~call.options.coerce
               \/ \A i \in DOMAIN subs : coerced[i] = Undefined
       IN  /\ ~nonePlain => result = plain[FirstDefinedAt(plain)]
           /\ (nonePlain /\ ~noneCoerced)
                => result = coerced[FirstDefinedAt(coerced)]
           /\ (nonePlain /\ noneCoerced /\ call.options.fillZero)
                => result = ZeroValue(h, subs[1])
           /\ (\E i \in DOMAIN subs : plain[i] = value)
                => \E j \in DOMAIN subs : result = plain[j]

\* a number handed to oneof string, integer with coerce set came back as the
\* number the second alternative accepts, not as the string the first
\* alternative would coerce it to
C28_Witness ==
  /\ OneOfRestricted
  /\ call.options.coerce
  /\ value = Whole(1)
  /\ compiled.node.subtypes = <<ScalarNode("string"), ScalarNode("integer")>>
  /\ Restrict(compiled.heap, ScalarNode("string"), value, CoerceOnly, {})
       = Str("1")
  /\ result = Whole(1)

-----------------------------------------------------------------------------
(* The structural queries return *)

\* one of the structural queries was called on a compiled schema
StructuralQueryCalled ==
  /\ impl = "compiled"
  /\ compiled.t = "schema"
  /\ call.op \in {"hasFixedShape", "isRecursive", "toSource"}

\* C29: hasFixedShape(), isRecursive() and toSource() return on every
\* compiled schema, schemas with recursive labels included: none of them
\* ends in a stack overflow.
C29_StructuralQueriesReturn == StructuralQueryCalled => ~IsThrow(result)

-----------------------------------------------------------------------------
(* The matcher of an accepted document *)

\* the labels the ref types of a schema type name
RECURSIVE RefLabels(_)
RefLabels(schema) ==
  IF schema.t = "array" /\ Len(schema.e) >= 2 /\ schema.e[1] = Str("ref")
  THEN {schema.e[2].s}
  ELSE IF schema.t = "array" /\ schema.e # <<>> /\ schema.e[1] = Str("enum")
  THEN {}
  ELSE IF schema.t = "array"
  THEN UNION {RefLabels(schema.e[i]) : i \in DOMAIN schema.e}
  ELSE IF schema.t = "object"
  THEN UNION {RefLabels(schema.m[k]) : k \in DOMAIN schema.m}
  ELSE {}

\* the labels a document refers to, from its schema or from its let block
LabelsReferredTo(doc) ==
  RefLabels(SchemaOf(doc))
    \cup UNION {RefLabels(LetOf(doc)[k]) : k \in DOMAIN LetOf(doc)}

\* none of the validation errors the matcher appended says, at any depth,
\* 'bad schema' or 'broken ref'
RECURSIVE NoInternalDiagnostic(_)
NoInternalDiagnostic(errors) ==
  \A i \in DOMAIN errors :
    LET e == errors[i]
    IN  "message" \in DOMAIN e
          => /\ e.message # "bad schema"
             /\ ~StartsWith(e.message, "broken ref")
             /\ "children" \in DOMAIN e
                  => \A j \in DOMAIN e.children :
                       e.children[j].t = "array"
                         => NoInternalDiagnostic(e.children[j].e)

\* C30: for a document isSchema accepts, whatever the value, the matcher
\* reports no 'bad schema' and no 'broken ref', and every label a ref names
\* is a key of the let block, whose validator matchesSchema registered.
C30_AcceptedDocumentsNeedNoInternalDiagnostic ==
  (Accepted /\ call.op = "matchesSchema")
    => /\ result.t = "matched" => NoInternalDiagnostic(result.errors)
       /\ LabelsReferredTo(source) \subseteq DOMAIN LetOf(source)
====
